---- MODULE Spec2Model ----
(***************************************************************************)
(* Model of the host-whitelisted reverse proxy of src/main.ts: the         *)
(* whitelist compiler, the hostname validator, the sliding-window rate     *)
(* limiter, the header sanitizers and the per-request handler passed to    *)
(* Deno.serve.  Strings are sequences of one-character strings.            *)
(***************************************************************************)
EXTENDS Integers, Sequences, FiniteSets, TLC

VARIABLES
    now,                \* Date.now(), a non-decreasing clock
    requestTimestamps,  \* the Map<string, number[]> of main.ts:55
    reqs,               \* one record per inbound request, in arrival order
    allowedHostsVar,    \* the value of ALLOWED_HOSTS, main.ts:8
    started,            \* the module body ran to Deno.serve without throwing
    probe               \* one direct call of RegExp.test: its arguments and result

vars == <<now, requestTimestamps, reqs, allowedHostsVar, started, probe>>

-----------------------------------------------------------------------------
(* Bounds of the model *)

MaxTestHostLen == 5   \* the longest hostname a pattern is tested on
MaxCandidateLen == 4  \* the longest candidate the validator is tested on
MaxTime == 4          \* the clock runs from 0 to MaxTime
MaxReqs == 3          \* requests of the concurrent specification
MaxRateReqs == 4      \* requests of the rate-limiter specification
MaxPairReqs == 2      \* requests of the interleaving specification
MaxClientReqs == 3    \* requests of the client-identifier specification

(* Settings of main.ts:15-28, scaled down *)
RATE_LIMIT_WINDOW_MS == 2
RATE_LIMIT_MAX_REQUESTS == 2
PROXY_TIMEOUT_MS == 2

-----------------------------------------------------------------------------
(* Characters and strings *)

UpperSeq == <<"A","B","C","D","E","F","G","H","I","J","K","L","M",
              "N","O","P","Q","R","S","T","U","V","W","X","Y","Z">>
LowerSeq == <<"a","b","c","d","e","f","g","h","i","j","k","l","m",
              "n","o","p","q","r","s","t","u","v","w","x","y","z">>
UpperLetters == {UpperSeq[i] : i \in 1..26}
LowerLetters == {LowerSeq[i] : i \in 1..26}
Digits == {"0","1","2","3","4","5","6","7","8","9"}
\* a sample of the code points \u00a1-\uffff
UnicodeLetters == {"u00e9"}

ToLower(c) ==
    IF c \in UpperLetters
    THEN LowerSeq[CHOOSE i \in 1..26 : UpperSeq[i] = c]
    ELSE c

LowerStr(s) == [i \in 1..Len(s) |-> ToLower(s[i])]

\* String.prototype.split(sep) for a one-character separator
RECURSIVE SplitFrom(_, _, _)
SplitFrom(s, sep, cur) ==
    IF s = <<>> THEN <<cur>>
    ELSE IF Head(s) = sep THEN <<cur>> \o SplitFrom(Tail(s), sep, <<>>)
    ELSE SplitFrom(Tail(s), sep, Append(cur, Head(s)))

Split(s, sep) == SplitFrom(s, sep, <<>>)

\* a filter that keeps the empty segments
FilterNonEmptyKeepsAll(segs) == segs

\* Array.prototype.filter((segment) => segment): drops the empty strings
RECURSIVE FilterNonEmpty(_)
FilterNonEmpty(segs) ==
    IF segs = <<>> THEN <<>>
    ELSE IF Head(segs) = <<>> THEN FilterNonEmpty(Tail(segs))
    ELSE <<Head(segs)>> \o FilterNonEmpty(Tail(segs))

\* Array.prototype.join(sep)
RECURSIVE Join(_, _)
Join(segs, sep) ==
    IF segs = <<>> THEN <<>>
    ELSE IF Len(segs) = 1 THEN Head(segs)
    ELSE Head(segs) \o <<sep>> \o Join(Tail(segs), sep)

-----------------------------------------------------------------------------
(* Whitelist patterns: patternToRegExp, main.ts:35-45 *)

\* an escape class without the dot: the dot stays a regular-expression dot
RegexMetaNoDot == {"+", "?", "^", "$", "{", "}", "(", ")", "|", "[", "]", "\\"}

\* the class [.+?^${}()|[\]\\] of the first replace
RegexMeta == {".", "+", "?", "^", "$", "{", "}", "(", ")", "|", "[", "]", "\\"}

WildcardCount(pattern) == Cardinality({i \in 1..Len(pattern) : pattern[i] = "*"})

MaxWildcards == 3

\* one atom of regexString per pattern character: an escaped character, the
\* class [^.]+ that replaces a star, or the character as written
RegexAtom(c) ==
    IF c \in RegexMeta THEN [t |-> "esc", c |-> c]
    ELSE IF c = "*" THEN [t |-> "label", c |-> c]
    ELSE [t |-> "raw", c |-> c]

\* a compiler that refuses the third wildcard already
patternToRegExpMaxTwo(pattern) ==
    IF WildcardCount(pattern) >= MaxWildcards
    THEN [ok |-> FALSE, atoms |-> <<>>]
    ELSE [ok |-> TRUE, atoms |-> [i \in 1..Len(pattern) |-> RegexAtom(pattern[i])]]

patternToRegExp(pattern) ==
    IF WildcardCount(pattern) > MaxWildcards
    THEN [ok |-> FALSE, atoms |-> <<>>]
    ELSE [ok |-> TRUE, atoms |-> [i \in 1..Len(pattern) |-> RegexAtom(pattern[i])]]

\* the same without the flag "i"
AtomMatchesCaseSensitive(a, ch) ==
    IF a.t = "raw" /\ a.c = "." THEN TRUE
    ELSE a.c = ch

\* a single-character atom against a character, flag "i"
AtomMatches(a, ch) ==
    IF a.t = "raw" /\ a.c = "." THEN TRUE
    ELSE ToLower(a.c) = ToLower(ch)

\* a star compiled to .+ : it runs over dots
RECURSIVE MatchAtomsStarAny(_, _)
MatchAtomsStarAny(atoms, s) ==
    IF atoms = <<>> THEN s = <<>>
    ELSE IF Head(atoms).t = "label"
    THEN \E n \in 1..Len(s) :
            MatchAtomsStarAny(Tail(atoms), SubSeq(s, n + 1, Len(s)))
    ELSE /\ s # <<>>
         /\ AtomMatches(Head(atoms), Head(s))
         /\ MatchAtomsStarAny(Tail(atoms), Tail(s))

\* ^atoms$ against the whole of s
RECURSIVE MatchAtoms(_, _)
MatchAtoms(atoms, s) ==
    IF atoms = <<>> THEN s = <<>>
    ELSE IF Head(atoms).t = "label"
    THEN \E n \in 1..Len(s) :
            /\ \A i \in 1..n : s[i] # "."
            /\ MatchAtoms(Tail(atoms), SubSeq(s, n + 1, Len(s)))
    ELSE /\ s # <<>>
         /\ AtomMatches(Head(atoms), Head(s))
         /\ MatchAtoms(Tail(atoms), Tail(s))

RegExpTest(re, s) == MatchAtoms(re.atoms, s)

-----------------------------------------------------------------------------
(* Hostname validation: IS_VALID_HOSTNAME, main.ts:49-52 *)

\* [a-zA-Z0-9\u00a1-\uffff]
HostAlnum == LowerLetters \cup UpperLetters \cup Digits \cup UnicodeLetters

\* [X-]+ : a label that may start or end with a hyphen
IsLabelAnyEdge(s) ==
    /\ Len(s) >= 1
    /\ \A i \in 1..Len(s) : s[i] \in HostAlnum \cup {"-"}

\* the same over [a-zA-Z0-9] alone
IsLabelAscii(s) ==
    /\ Len(s) >= 1
    /\ s[1] \in HostAlnum \ UnicodeLetters
    /\ s[Len(s)] \in HostAlnum \ UnicodeLetters
    /\ \A i \in 1..Len(s) : s[i] \in (HostAlnum \ UnicodeLetters) \cup {"-"}

\* X | X[X-]*X
IsLabel(s) ==
    /\ Len(s) >= 1
    /\ s[1] \in HostAlnum
    /\ s[Len(s)] \in HostAlnum
    /\ \A i \in 1..Len(s) : s[i] \in HostAlnum \cup {"-"}

\* ^(label\.)*label$
RECURSIVE IS_VALID_HOSTNAME(_)
IS_VALID_HOSTNAME(s) ==
    \/ IsLabel(s)
    \/ \E n \in 1..(Len(s) - 2) :
          /\ IsLabel(SubSeq(s, 1, n))
          /\ s[n + 1] = "."
          /\ IS_VALID_HOSTNAME(SubSeq(s, n + 2, Len(s)))

-----------------------------------------------------------------------------
(* URL: the fields of a parsed http(s) URL and the setters main.ts:190-194  *)
(* uses.  A host is a domain (a string) or an IPv4 address (four octets).   *)

Domain(name) == [kind |-> "domain", name |-> name, addr |-> <<>>]
IPv4(addr) == [kind |-> "ipv4", name |-> <<>>, addr |-> addr]
HostFailure == [kind |-> "failure", name |-> <<>>, addr |-> <<>>]

HexSeq == <<"0","1","2","3","4","5","6","7","8","9","a","b","c","d","e","f">>
IsHexDigit(c) == \E i \in 1..16 : HexSeq[i] = ToLower(c)
DigitVal(c) == (CHOOSE i \in 1..16 : HexSeq[i] = ToLower(c)) - 1

RECURSIVE Pow(_, _)
Pow(b, e) == IF e = 0 THEN 1 ELSE b * Pow(b, e - 1)

RECURSIVE NumValue(_, _)
NumValue(s, radix) ==
    IF s = <<>> THEN 0
    ELSE NumValue(SubSeq(s, 1, Len(s) - 1), radix) * radix + DigitVal(s[Len(s)])

\* the IPv4 number parser of the URL standard; -1 is failure
ParseIPv4Number(s) ==
    LET hex == Len(s) >= 2 /\ s[1] = "0" /\ s[2] \in {"x", "X"}
        oct == ~hex /\ Len(s) >= 2 /\ s[1] = "0"
        radix == IF hex THEN 16 ELSE IF oct THEN 8 ELSE 10
        body == IF hex THEN SubSeq(s, 3, Len(s))
                ELSE IF oct THEN SubSeq(s, 2, Len(s)) ELSE s
    IN  IF s = <<>> THEN -1
        ELSE IF \A i \in 1..Len(body) : IsHexDigit(body[i]) /\ DigitVal(body[i]) < radix
        THEN NumValue(body, radix)
        ELSE -1

DropEmptyLast(parts) ==
    IF Len(parts) > 1 /\ parts[Len(parts)] = <<>>
    THEN SubSeq(parts, 1, Len(parts) - 1) ELSE parts

EndsInANumber(s) ==
    LET parts == DropEmptyLast(Split(s, "."))
        last == parts[Len(parts)]
    IN  /\ last # <<>>
        /\ \/ \A i \in 1..Len(last) : last[i] \in Digits
           \/ ParseIPv4Number(last) # -1

IPv4Parse(s) ==
    LET parts == DropEmptyLast(Split(s, "."))
        n == Len(parts)
        nums == [i \in 1..n |-> ParseIPv4Number(parts[i])]
    IN  IF n > 4 THEN HostFailure
        ELSE IF \E i \in 1..n : nums[i] = -1 THEN HostFailure
        ELSE IF \E i \in 1..(n - 1) : nums[i] > 255 THEN HostFailure
        ELSE IF nums[n] \div 256 >= Pow(256, 4 - n) THEN HostFailure
        ELSE \* the last number fills the octets the others leave
             IPv4([k \in 1..4 |->
                     IF k < n THEN nums[k]
                     ELSE (nums[n] \div Pow(256, 4 - k)) % 256])

RECURSIVE DecimalStr(_)
DecimalStr(n) ==
    IF n < 10 THEN <<HexSeq[n + 1]>>
    ELSE Append(DecimalStr(n \div 10), HexSeq[(n % 10) + 1])

\* the host serializer
HostSerialize(h) ==
    IF h.kind = "ipv4" THEN Join([k \in 1..4 |-> DecimalStr(h.addr[k])], ".")
    ELSE h.name

\* code points a domain may not contain, among the characters of the model
ForbiddenDomainChars == {"/", "%", ":", "?", "#", "@", "[", "]", "\\", "^", "|", " ", "<", ">"}

\* the host parser of the URL standard for a special scheme
HostParse(input) ==
    LET asciiDomain == LowerStr(input)
    IN  IF input = <<>> THEN HostFailure
        ELSE IF \E i \in 1..Len(asciiDomain) : asciiDomain[i] \in ForbiddenDomainChars
        THEN HostFailure
        ELSE IF EndsInANumber(asciiDomain) THEN IPv4Parse(asciiDomain)
        ELSE Domain(asciiDomain)

\* a protocol is the scheme followed by ":"; 443 is the default port of https
ProtocolSetter(url, value) ==
    [url EXCEPT !.protocol = value,
                !.port = IF value = <<"https", ":">> /\ @ = "443" THEN "" ELSE @]

\* a value the host parser rejects leaves the URL as it was
HostSetter(url, value) ==
    LET h == HostParse(value)
    IN  IF h.kind = "failure" THEN url ELSE [url EXCEPT !.hostname = h]

PortSetter(url, value) == [url EXCEPT !.port = value]

\* the path state of the URL parser: "." is skipped, ".." removes a segment
RECURSIVE ShortenPath(_, _)
ShortenPath(segs, out) ==
    IF segs = <<>> THEN out
    ELSE LET seg == Head(segs)
             last == Len(segs) = 1
         IN  IF seg = <<".", ".">>
             THEN ShortenPath(Tail(segs),
                     LET popped == IF out = <<>> THEN out ELSE SubSeq(out, 1, Len(out) - 1)
                     IN  IF last THEN Append(popped, <<>>) ELSE popped)
             ELSE IF seg = <<".">>
             THEN ShortenPath(Tail(segs), IF last THEN Append(out, <<>>) ELSE out)
             ELSE ShortenPath(Tail(segs), Append(out, seg))

PathnameSetter(url, value) ==
    LET segs == Split(value, "/")
        rest == IF value # <<>> /\ Head(value) = "/" THEN Tail(segs) ELSE segs
    IN  [url EXCEPT !.pathname = <<"/">> \o Join(ShortenPath(rest, <<>>), "/")]

\* url.host: the host, with the port when there is one
UrlHost(url) == [hostname |-> HostSerialize(url.hostname), port |-> url.port]

-----------------------------------------------------------------------------
(* Headers: a map from lower-case names to values *)

HeaderCase == [n \in {"Connection", "UPGRADE", "X-Forwarded-For", "Authorization",
                      "Set-Cookie", "Server", "WWW-Authenticate", "X-Powered-By",
                      "Proxy-Authenticate", "X-Frame-Options", "Content-Type"} |->
                 CASE n = "Connection" -> "connection"
                   [] n = "UPGRADE" -> "upgrade"
                   [] n = "X-Forwarded-For" -> "x-forwarded-for"
                   [] n = "Authorization" -> "authorization"
                   [] n = "Set-Cookie" -> "set-cookie"
                   [] n = "Server" -> "server"
                   [] n = "WWW-Authenticate" -> "www-authenticate"
                   [] n = "X-Powered-By" -> "x-powered-by"
                   [] n = "Proxy-Authenticate" -> "proxy-authenticate"
                   [] n = "X-Frame-Options" -> "x-frame-options"
                   [] n = "Content-Type" -> "content-type"]

LowerName(n) == IF n \in DOMAIN HeaderCase THEN HeaderCase[n] ELSE n

EmptyHeaders == [n \in {} |-> <<>>]

HeadersDelete(h, name) == [n \in (DOMAIN h) \ {LowerName(name)} |-> h[n]]

HeadersSet(h, name, value) ==
    [n \in (DOMAIN h) \cup {LowerName(name)} |->
        IF n = LowerName(name) THEN value ELSE h[n]]

HeadersAppend(h, name, value) ==
    [n \in (DOMAIN h) \cup {LowerName(name)} |->
        IF n = LowerName(name)
        THEN (IF n \in DOMAIN h THEN h[n] ELSE <<>>) \o value
        ELSE h[n]]

\* new Headers(list of <<name, value>>)
RECURSIVE HeadersFrom(_)
HeadersFrom(list) ==
    IF list = <<>> THEN EmptyHeaders
    ELSE HeadersAppend(HeadersFrom(SubSeq(list, 1, Len(list) - 1)),
                       list[Len(list)][1], <<list[Len(list)][2]>>)

RECURSIVE DeleteAll(_, _)
DeleteAll(h, names) ==
    IF names = <<>> THEN h
    ELSE DeleteAll(HeadersDelete(h, Head(names)), Tail(names))

\* the list without its last entry
hopByHopHeadersShort == <<"connection", "keep-alive", "proxy-authenticate",
                          "proxy-authorization", "te", "trailers",
                          "transfer-encoding">>

hopByHopHeaders == <<"connection", "keep-alive", "proxy-authenticate",
                     "proxy-authorization", "te", "trailers",
                     "transfer-encoding", "upgrade">>

\* a sanitizer that adds its forwarding headers to those of the client
fwdHeadersKeepsClient(request, url) ==
    LET h0 == HeadersFrom(request.headers)
        h1 == DeleteAll(h0, hopByHopHeaders)
        h2 == HeadersDelete(h1, "x-forwarded-for")
        h3 == HeadersAppend(h2, "x-forwarded-host", <<UrlHost(url)>>)
    IN  HeadersAppend(h3, "x-forwarded-proto",
                      <<SubSeq(url.protocol, 1, Len(url.protocol) - 1)>>)

\* a sanitizer that also withholds the client's credentials
fwdHeadersDropsAuth(request, url) ==
    LET h0 == HeadersFrom(request.headers)
        h1 == DeleteAll(h0, hopByHopHeaders \o <<"authorization">>)
        h2 == HeadersDelete(h1, "x-forwarded-for")
        h3 == HeadersSet(h2, "x-forwarded-host", <<UrlHost(url)>>)
    IN  HeadersSet(h3, "x-forwarded-proto",
                   <<SubSeq(url.protocol, 1, Len(url.protocol) - 1)>>)

\* Layer 5, main.ts:167-182
fwdHeaders(request, url) ==
    LET h0 == HeadersFrom(request.headers)
        h1 == DeleteAll(h0, hopByHopHeaders)
        h2 == HeadersDelete(h1, "x-forwarded-for")
        h3 == HeadersSet(h2, "x-forwarded-host", <<UrlHost(url)>>)
    IN  HeadersSet(h3, "x-forwarded-proto",
                   <<SubSeq(url.protocol, 1, Len(url.protocol) - 1)>>)

\* the two names an earlier version of the proxy removed
blockedResponseHeadersOld == <<"server", "x-powered-by">>

blockedResponseHeaders == <<"set-cookie", "proxy-authenticate", "www-authenticate",
                            "server", "x-powered-by", "x-frame-options",
                            "x-content-type-options">>

\* main.ts:213-228
sanitizedHeaders(upstreamResponse) ==
    HeadersSet(DeleteAll(HeadersFrom(upstreamResponse.headers), blockedResponseHeaders),
               "x-proxied-by", <<"deno-proxy/2.5">>)

-----------------------------------------------------------------------------
(* Configuration: main.ts:8-12 and 46 *)

RECURSIVE TrimLeft(_)
TrimLeft(s) == IF s # <<>> /\ Head(s) = " " THEN TrimLeft(Tail(s)) ELSE s

RECURSIVE TrimRight(_)
TrimRight(s) ==
    IF s # <<>> /\ s[Len(s)] = " " THEN TrimRight(SubSeq(s, 1, Len(s) - 1)) ELSE s

Trim(s) == TrimRight(TrimLeft(s))

ALLOWED_HOST_PATTERNS ==
    LET parts == Split(allowedHostsVar, ",")
    IN  FilterNonEmpty([i \in 1..Len(parts) |-> Trim(parts[i])])

ALLOWED_HOST_REGEXPS ==
    [i \in 1..Len(ALLOWED_HOST_PATTERNS) |-> patternToRegExp(ALLOWED_HOST_PATTERNS[i])]

\* a pattern that does not compile throws at module load: Deno.serve is not reached
StartupOk == \A i \in 1..Len(ALLOWED_HOST_REGEXPS) : ALLOWED_HOST_REGEXPS[i].ok

\* the whitelist test with its result inverted
isAllowedInverted(targetHost) ==
    ~(\E i \in 1..Len(ALLOWED_HOST_REGEXPS) : RegExpTest(ALLOWED_HOST_REGEXPS[i], targetHost))

\* a whitelist that lets every host through when no pattern is configured
isAllowedOpenWhenEmpty(targetHost) ==
    \/ Len(ALLOWED_HOST_REGEXPS) = 0
    \/ \E i \in 1..Len(ALLOWED_HOST_REGEXPS) : RegExpTest(ALLOWED_HOST_REGEXPS[i], targetHost)

\* ALLOWED_HOST_REGEXPS.some((regex) => regex.test(targetHost))
isAllowed(targetHost) ==
    \E i \in 1..Len(ALLOWED_HOST_REGEXPS) : RegExpTest(ALLOWED_HOST_REGEXPS[i], targetHost)

-----------------------------------------------------------------------------
(* The request handler, main.ts:86-266 *)

\* an identifier that knows TCP only: every other connection is unknown
clientIpTcpOnly(info) ==
    IF info.remoteAddr.transport = "tcp" THEN <<info.remoteAddr.hostname>>
    ELSE <<"unknown">>

\* main.ts:89-96; a string is the tuple of the pieces it is made of
clientIp(info) ==
    IF info.remoteAddr.transport = "tcp" THEN <<info.remoteAddr.hostname>>
    ELSE IF info.remoteAddr.transport = "unix" THEN <<"unix:", info.remoteAddr.path>>
    ELSE <<"unknown">>

\* requestTimestamps.get(clientIp) || []
MapGet(map, key) == IF key \in DOMAIN map THEN map[key] ELSE <<>>

\* a set that is lost: the list is built and never stored
MapSetLost(map, key, list) == map

\* one list for the whole server: a set writes it under every key
MapSetAll(map, key, list) == [k \in (DOMAIN map) \cup {key} |-> list]

\* requestTimestamps.set(clientIp, list)
MapSet(map, key, list) ==
    [k \in (DOMAIN map) \cup {key} |-> IF k = key THEN list ELSE map[k]]

\* userTimestamps.filter((ts) => now - ts < RATE_LIMIT_WINDOW_MS)
RECURSIVE recentTimestamps(_, _)
recentTimestamps(userTimestamps, t) ==
    IF userTimestamps = <<>> THEN <<>>
    ELSE IF t - Head(userTimestamps) < RATE_LIMIT_WINDOW_MS
    THEN <<Head(userTimestamps)>> \o recentTimestamps(Tail(userTimestamps), t)
    ELSE recentTimestamps(Tail(userTimestamps), t)

\* the limit compared with > instead of >=
RateLimitedOffByOne(recent) == Len(recent) > RATE_LIMIT_MAX_REQUESTS

\* a limiter that admits every request
RateLimitedNever(recent) == FALSE

\* main.ts:105
RateLimited(recent) == Len(recent) >= RATE_LIMIT_MAX_REQUESTS

\* the body of a response the proxy writes itself: a text with, where the
\* template has them, the target host and the timeout in it
Body(pre, host, mid, ms, post) ==
    [pre |-> pre, host |-> host, mid |-> mid, ms |-> ms, post |-> post, stream |-> "none"]
Text(s) == Body(s, <<>>, "", -1, "")
\* the body stream of an upstream response, passed on as it is
Stream(b) == [pre |-> "", host |-> <<>>, mid |-> "", ms |-> -1, post |-> "", stream |-> b]

TextPlain == HeadersSet(EmptyHeaders, "content-type", <<"text/plain; charset=utf-8">>)
\* the content type the Response constructor gives a string body
DefaultTextPlain == HeadersSet(EmptyHeaders, "content-type", <<"text/plain;charset=UTF-8">>)

Response(status, statusText, body, headers) ==
    [status |-> status, statusText |-> statusText, body |-> body, headers |-> headers]

NoResponse == Response(0, "", Text(""), EmptyHeaders)
NoUrl == [protocol |-> <<>>, hostname |-> HostFailure, port |-> "", pathname |-> <<>>, search |-> ""]

\* a target URL that keeps the pathname of the request
targetUrlKeepsPath(request, targetHost, pathSegments) ==
    PortSetter(HostSetter(ProtocolSetter(request.url, <<"https", ":">>), targetHost), "")

\* main.ts:190-194
targetUrl(request, targetHost, pathSegments) ==
    LET u0 == request.url
        u1 == ProtocolSetter(u0, <<"https", ":">>)
        u2 == HostSetter(u1, targetHost)
        u3 == PortSetter(u2, "")
    IN  PathnameSetter(u3, <<"/">> \o Join(pathSegments, "/"))

\* the handler's locals when it starts: nothing has run yet
NewRequest(request, info, t) ==
    [request |-> request, info |-> info, arrival |-> t, clientIp |-> clientIp(info),
     pc |-> "start", stages |-> <<>>, targetHost |-> <<>>, pathSegments |-> <<>>,
     timer |-> "none", timerDue |-> 0, aborted |-> FALSE,
     calls |-> <<>>, logs |-> <<>>, response |-> NoResponse]

Finish(r, stages, logs, response) ==
    [r EXCEPT !.pc = "done", !.stages = stages, !.logs = @ \o logs, !.response = response]

Log(level, message) == [level |-> level, message |-> message, error |-> ""]

\* errPayload of main.ts:237-246: the record carries the error's own message
LogError(level, message, error) ==
    [level |-> level, message |-> message, error |-> error.message]

\* a rate check that records the rejected request as well
RateCheckRecordsRejected(map, key, t) ==
    LET recent == recentTimestamps(MapGet(map, key), t)
    IN  [allowed |-> ~RateLimited(recent), map |-> MapSet(map, key, Append(recent, t))]

\* a rate check that stores the unpruned list
RateCheckNoPrune(map, key, t) ==
    LET userTimestamps == MapGet(map, key)
    IN  IF RateLimited(recentTimestamps(userTimestamps, t))
        THEN [allowed |-> FALSE, map |-> map]
        ELSE [allowed |-> TRUE, map |-> MapSet(map, key, Append(userTimestamps, t))]

\* a rate check that stores the new timestamp in front of the list
RateCheckPrepends(map, key, t) ==
    LET recent == recentTimestamps(MapGet(map, key), t)
    IN  IF RateLimited(recent)
        THEN [allowed |-> FALSE, map |-> map]
        ELSE [allowed |-> TRUE, map |-> MapSet(map, key, <<t>> \o recent)]

\* Layer 1, main.ts:99-116: the decision and the map it leaves
RateCheck(map, key, t) ==
    LET userTimestamps == MapGet(map, key)
        recent == recentTimestamps(userTimestamps, t)
    IN  IF RateLimited(recent)
        THEN [allowed |-> FALSE, map |-> map]
        ELSE [allowed |-> TRUE, map |-> MapSet(map, key, Append(recent, t))]

\* main.ts:105-115
TooManyRequests(r0) ==
    Finish(r0, <<"rate">>, <<Log("WARN", "Rate limit exceeded")>>,
           Response(429, "", Text("Too Many Requests"), DefaultTextPlain))

\* Layers 2 to 7, main.ts:118-210: from the path parse to the first suspension
\* point, the await of fetch, or to the response of an early return
Forward(r0, request) ==
    LET url == request.url
        pathSegments == FilterNonEmpty(Split(url.pathname, "/"))
        targetHost == Head(pathSegments)
        rest == Tail(pathSegments)
        r1 == [r0 EXCEPT !.targetHost = targetHost, !.pathSegments = rest]
    IN  IF Len(pathSegments) < 1
        THEN Finish(r0, <<"rate", "path">>, <<>>,
                Response(400, "",
                    Text("Bad Request: The first path segment must be the target host."),
                    DefaultTextPlain))
        ELSE IF ~IS_VALID_HOSTNAME(targetHost)
        THEN Finish(r1, <<"rate", "path", "validate">>,
                <<Log("WARN", "Invalid hostname format detected")>>,
                Response(400, "", Text("Bad Request: Invalid host format provided."),
                         DefaultTextPlain))
        ELSE IF ~isAllowed(targetHost)
        THEN Finish(r1, <<"rate", "path", "validate", "whitelist">>,
                <<Log("WARN", "Forbidden proxy attempt to non-whitelisted host")>>,
                Response(403, "",
                    Body("Forbidden: Host '", targetHost, "", -1,
                         "' is not in the allowed list."),
                    DefaultTextPlain))
        ELSE [r1 EXCEPT
                !.pc = "fetching",
                !.stages = <<"rate", "path", "validate", "whitelist",
                             "sanitize", "timer", "fetch">>,
                !.timer = "armed",
                !.timerDue = r0.arrival + PROXY_TIMEOUT_MS,
                !.calls = <<[url |-> targetUrl(request, targetHost, rest),
                             headers |-> fwdHeaders(request, url),
                             method |-> request.method,
                             redirect |-> "follow"]>>]

\* a handler that parses the path before it checks the rate
HandlerRunPathFirst(request, info, t, map) ==
    LET r0 == NewRequest(request, info, t)
        rate == RateCheck(map, r0.clientIp, t)
    IN  IF FilterNonEmpty(Split(request.url.pathname, "/")) = <<>>
        THEN [map |-> map, req |-> Forward(r0, request)]
        ELSE IF ~rate.allowed
        THEN [map |-> rate.map, req |-> TooManyRequests(r0)]
        ELSE [map |-> rate.map, req |-> Forward(r0, request)]

\* a handler that records the timestamp of forwarded requests only
HandlerRunChargesForwarded(request, info, t, map) ==
    LET r0 == NewRequest(request, info, t)
        rate == RateCheck(map, r0.clientIp, t)
    IN  IF ~rate.allowed
        THEN [map |-> rate.map, req |-> TooManyRequests(r0)]
        ELSE IF Forward(r0, request).pc = "fetching"
        THEN [map |-> rate.map, req |-> Forward(r0, request)]
        ELSE [map |-> map, req |-> Forward(r0, request)]

\* main.ts:87-210: the handler from its start to its first suspension point
HandlerRun(request, info, t, map) ==
    LET r0 == NewRequest(request, info, t)
        rate == RateCheck(map, r0.clientIp, t)
    IN  IF ~rate.allowed
        THEN [map |-> rate.map, req |-> TooManyRequests(r0)]
        ELSE [map |-> rate.map, req |-> Forward(r0, request)]

\* main.ts:235-265
\* a handler that looks for the name AbortSignal.timeout() gives its error
CatchErrorTimeoutName(r, error) ==
    IF error.isError /\ error.name = "TimeoutError"
    THEN Finish(r, Append(r.stages, "catch"), <<Log("ERROR", "Gateway Timeout")>>,
            Response(504, "", Body("Gateway Timeout: Request to '", r.targetHost, "' exceeded ", PROXY_TIMEOUT_MS, "ms."), TextPlain))
    ELSE Finish(r, Append(r.stages, "catch"), <<Log("ERROR", "Error fetching target host")>>,
            Response(502, "", Body("Bad Gateway: Could not reach target host '", r.targetHost, "", -1, "'."), TextPlain))

\* a handler that answers every failure as a timeout
CatchErrorAllTimeout(r, error) ==
    Finish(r, Append(r.stages, "catch"), <<Log("ERROR", "Gateway Timeout")>>,
        Response(504, "", Body("Gateway Timeout: Request to '", r.targetHost, "' exceeded ", PROXY_TIMEOUT_MS, "ms."), TextPlain))

\* a handler that tells the client what went wrong
CatchErrorTellsMessage(r, error) ==
    IF error.isError /\ error.name = "AbortError"
    THEN Finish(r, Append(r.stages, "catch"),
            <<LogError("ERROR", "Gateway Timeout", error)>>,
            Response(504, "",
              Body("Gateway Timeout: Request to '", r.targetHost, "' exceeded ",
                   PROXY_TIMEOUT_MS, "ms."),
              TextPlain))
    ELSE Finish(r, Append(r.stages, "catch"),
            <<LogError("ERROR", "Error fetching target host", error)>>,
            Response(502, "",
              Body("Bad Gateway: Could not reach target host '", r.targetHost, "", -1,
                   error.message),
              TextPlain))

\* a handler that calls the upstream again when the call failed
CatchErrorRetry(r, error) ==
    [r EXCEPT !.calls = Append(@, @[1]), !.timer = "armed", !.aborted = FALSE]

\* a handler without the catch block: the error leaves it
CatchErrorRethrows(r, error) ==
    [r EXCEPT !.pc = "thrown", !.stages = Append(@, "throw")]

CatchError(r, error) ==
    IF error.isError /\ error.name = "AbortError"
    THEN Finish(r, Append(r.stages, "catch"),
            <<LogError("ERROR", "Gateway Timeout", error)>>,
            Response(504, "",
              Body("Gateway Timeout: Request to '", r.targetHost, "' exceeded ",
                   PROXY_TIMEOUT_MS, "ms."),
              TextPlain))
    ELSE Finish(r, Append(r.stages, "catch"),
            <<LogError("ERROR", "Error fetching target host", error)>>,
            Response(502, "",
              Body("Bad Gateway: Could not reach target host '", r.targetHost, "", -1, "'."),
              TextPlain))

\* main.ts:208-210, the finally of the await
\* a clearTimeout that was left out
ClearTimeoutNoop(r) == r

ClearTimeout(r) == [r EXCEPT !.timer = "cleared"]

\* main.ts:212-234
\* a handler that answers 200 OK whatever the upstream status was
PassThroughAsOk(r, upstreamResponse) ==
    Finish(ClearTimeout(r), Append(r.stages, "respond"), <<>>,
        Response(200, "OK", Stream(upstreamResponse.body),
                 sanitizedHeaders(upstreamResponse)))

PassThrough(r, upstreamResponse) ==
    Finish(ClearTimeout(r), Append(r.stages, "respond"), <<>>,
        Response(upstreamResponse.status, upstreamResponse.statusText,
                 Stream(upstreamResponse.body), sanitizedHeaders(upstreamResponse)))

AbortError == [isError |-> TRUE, name |-> "AbortError", message |-> "The signal has been aborted"]

-----------------------------------------------------------------------------
(* Inputs *)

Tcp(hostname) == [remoteAddr |-> [transport |-> "tcp", hostname |-> hostname, path |-> ""]]

\* Deno.UnixAddr and Deno.VsockAddr, the other addresses Deno.serve listens on
Unix(path) == [remoteAddr |-> [transport |-> "unix", hostname |-> "", path |-> path]]
Vsock(cid) == [remoteAddr |-> [transport |-> "vsock", hostname |-> "", path |-> "",
                               cid |-> cid]]

Url(protocol, hostname, port, pathname, search) ==
    [protocol |-> protocol, hostname |-> Domain(hostname), port |-> port,
     pathname |-> pathname, search |-> search]

Request(url, method, headers) == [url |-> url, method |-> method, headers |-> headers]

\* ALLOWED_HOSTS = "a.b, *.b,1.1.1.*"
HostsConfig == <<"a", ".", "b", ",", " ", "*", ".", "b", ",",
                 "1", ".", "1", ".", "1", ".", "*">>

\* host names that occur as the first path segment
H_ab == <<"a", ".", "b">>
H_Ab == <<"A", ".", "b">>
H_xb == <<"x", ".", "b">>
H_hyphen == <<"-", "a", ".", "b">>
H_dots == <<"a", ".", ".", "b">>
H_pct == <<"a", "%", "b">>
H_cd == <<"c", ".", "d">>
H_ip == <<"1", ".", "1", ".", "1", ".", "1">>
H_ip256 == <<"1", ".", "1", ".", "1", ".", "2", "5", "6">>

\* the pathnames of parsed request URLs: no "." or ".." segment is left in them
P_root == <<"/">>
P_slashes == <<"/", "/">>
P_ab == <<"/">> \o H_ab
P_ab_x == <<"/">> \o H_ab \o <<"/", "x">>
P_ab_xyx == <<"/">> \o H_ab \o <<"/", "x", "/", "y", "/", "x">>
P_ab_gaps == <<"/", "/">> \o H_ab \o <<"/", "/", "x", "/">>
P_Ab_x == <<"/">> \o H_Ab \o <<"/", "x">>
P_xb_yx == <<"/">> \o H_xb \o <<"/", "y", "/", "x">>
P_hyphen == <<"/">> \o H_hyphen \o <<"/", "x">>
P_dots == <<"/">> \o H_dots \o <<"/", "x">>
P_pct == <<"/">> \o H_pct \o <<"/", "x">>
P_cd == <<"/">> \o H_cd \o <<"/", "x">>
P_ip == <<"/">> \o H_ip \o <<"/", "x">>
P_ip256 == <<"/">> \o H_ip256 \o <<"/", "x">>

Pathnames == {P_root, P_slashes, P_ab, P_ab_x, P_ab_xyx, P_ab_gaps, P_Ab_x, P_xb_yx,
              P_hyphen, P_dots, P_pct, P_cd, P_ip, P_ip256}

ProxyHost == <<"p">>
OtherHost == <<"e", ".", "v">>

\* the origins a request URL can have: a default port is never explicit
Origins ==
    {[protocol |-> <<"http", ":">>, port |-> ""],
     [protocol |-> <<"http", ":">>, port |-> "8000"],
     [protocol |-> <<"http", ":">>, port |-> "443"],
     [protocol |-> <<"https", ":">>, port |-> ""],
     [protocol |-> <<"https", ":">>, port |-> "8443"]}

PlainHeaders == << <<"Connection", "close">>, <<"Authorization", "k">> >>

HeaderLists ==
    {<<>>,
     PlainHeaders,
     << <<"connection", "keep-alive">>, <<"keep-alive", "5">>, <<"te", "trailers">>,
        <<"trailers", "t">>, <<"x-custom", "v">> >>,
     << <<"UPGRADE", "websocket">>, <<"transfer-encoding", "chunked">>,
        <<"X-Forwarded-For", "6.6.6.6">>, <<"x-forwarded-for", "7.7.7.7">> >>,
     << <<"proxy-authenticate", "a">>, <<"proxy-authorization", "b">>,
        <<"x-forwarded-host", "h">>, <<"x-forwarded-proto", "ftp">> >>}

Clients == {Tcp("c1"), Tcp("c2")}

\* the requests of the concurrent specification
Requests ==
    {Request(Url(<<"http", ":">>, ProxyHost, "8000", p, "?q=1"), "GET", PlainHeaders) :
        p \in {P_root, P_ab_x, P_hyphen, P_cd}}

\* the requests of the rate-limiter specification
RateRequests ==
    {Request(Url(<<"http", ":">>, ProxyHost, "8000", p, ""), "GET", <<>>) :
        p \in {P_root, P_cd}}

\* the requests of the single-request specification
OneRequests ==
    {Request(Url(o.protocol, h, o.port, p, q), "GET", hs) :
        o \in Origins, h \in {ProxyHost, OtherHost}, p \in Pathnames,
        q \in {"", "?q=1"}, hs \in HeaderLists}

UpstreamResponses ==
    {[status |-> 200, statusText |-> "OK", body |-> "b1",
      headers |-> << <<"Server", "nginx">>, <<"content-type", "application/json">> >>]}

UpstreamErrors ==
    {[isError |-> TRUE, name |-> "TypeError", message |-> "dns error"]}

\* what an upstream can answer the single request: statuses of every class, a
\* 502 and a 504 of its own, and the headers the proxy withholds in both cases
OneUpstreamResponses ==
    UpstreamResponses \cup
    {[status |-> 404, statusText |-> "Not Found", body |-> "b2",
      headers |-> << <<"Set-Cookie", "a=1">>, <<"set-cookie", "b=2">>,
                     <<"WWW-Authenticate", "Basic">>, <<"etag", "e1">> >>],
     [status |-> 500, statusText |-> "Internal Server Error", body |-> "b3",
      headers |-> << <<"X-Powered-By", "php">>, <<"Proxy-Authenticate", "Basic">>,
                     <<"server", "apache">>, <<"x-proxied-by", "other">> >>],
     [status |-> 502, statusText |-> "Bad Gateway", body |-> "b4",
      headers |-> << <<"X-Frame-Options", "DENY">>,
                     <<"x-content-type-options", "nosniff">>,
                     <<"Content-Type", "text/html">> >>],
     [status |-> 504, statusText |-> "Gateway Timeout", body |-> "b5",
      headers |-> <<>>],
     [status |-> 204, statusText |-> "", body |-> "",
      headers |-> << <<"www-authenticate", "Bearer">>, <<"x-powered-by", "express">> >>]}

\* how the upstream call of the single request can fail by itself
OneUpstreamErrors ==
    UpstreamErrors \cup
    {[isError |-> TRUE, name |-> "TypeError", message |-> "connection refused"],
     [isError |-> TRUE, name |-> "InvalidData", message |-> "invalid peer certificate"]}

OneClients == {Tcp("c1")}

\* the request of the client-identifier specification: it ends at the whitelist
ClientRequests ==
    {Request(Url(<<"http", ":">>, ProxyHost, "8000", P_cd, ""), "GET", <<>>)}

\* connections of every transport, two peers of each kind but TCP
AnyClients == {Tcp("c1"), Unix("/s"), Unix("/t"), Vsock(1), Vsock(2)}

\* the requests of the interleaving specification: forwarded, refused, empty
PairRequests ==
    {Request(Url(<<"http", ":">>, ProxyHost, "8000", p, ""), "GET", <<>>) :
        p \in {P_ab_x, P_cd, P_root}}

\* whitelist patterns with no wildcard up to five of them, apart and adjacent
ConfigPatterns ==
    {<<"a", ".", "b">>, <<"c", ".", "d">>,
     <<"*", ".", "b">>, <<"*", ".", "*">>,
     <<"*", ".", "*", ".", "*">>, <<"a", "*", "*", "*">>,
     <<"*", ".", "*", ".", "*", ".", "*">>, <<"*", "*", "*", "*">>,
     <<"*", ".", "*", ".", "*", ".", "*", ".", "*">>}

\* values of ALLOWED_HOSTS: unset or empty, commas and blanks only, one
\* pattern, two patterns
Configs ==
    {<<>>, <<" ", ",", " ">>, <<" ">>, <<",">>, <<",", ",">>}
    \cup ConfigPatterns
    \cup {p \o <<",", " ">> \o q : p \in ConfigPatterns, q \in ConfigPatterns}

\* the requests of the configuration specification
ConfigRequests ==
    {Request(Url(<<"http", ":">>, ProxyHost, "8000", p, ""), "GET", <<>>) :
        p \in {P_root, P_ab_x, P_cd}}

\* every string of at most n characters of an alphabet
Strings(alphabet, n) == UNION {[1..k -> alphabet] : k \in 0..n}

\* patterns called directly: literal, one star as a label, stars inside labels
TestPatterns ==
    {<<"a", ".", "b">>, <<"b">>, <<"*", ".", "b">>, <<"a", ".", "*">>,
     <<"*", ".", "*">>, <<"*">>, <<"a", "*">>, <<"*", "A", ".", "b">>}

\* the hostnames they are tested on
TestHosts == Strings({"a", "A", "b", "x", "."}, MaxTestHostLen)

\* the candidates the validator is tested on
TestCandidates == Strings({"a", "B", "1", "u00e9", "-", ".", "/"}, MaxCandidateLen)

\* patterns with the characters a regular expression gives a meaning to
MetaPatterns ==
    {<<"a", "+">>, <<"a", "?">>, <<"(", "a", ")">>, <<"a", "|", "b">>,
     <<"[", "a", "b", "]">>, <<"a", "$">>, <<"^", "a">>, <<"a", "{", "2", "}">>,
     <<"a", "\\", "b">>, <<"a", ".", "b">>, <<"*", ".", "a", "+">>}

\* themselves as hostnames, and what they would match as regular expressions
MetaHosts ==
    MetaPatterns \cup Strings({"a", "b"}, 3)
        \cup {<<"a", "x", "b">>, <<"a", "-", "b">>, <<"b", ".", "a", "+">>,
              <<"b", ".", "a", "a">>, <<"b", ".", "A", "+">>, <<"A", "+">>}

-----------------------------------------------------------------------------
(* Actions *)

\* module load, main.ts:1-77: the configuration is read and the whitelist compiled
Startup(hosts) ==
    /\ now = 0
    /\ requestTimestamps = [k \in {} |-> <<>>]
    /\ reqs = <<>>
    /\ allowedHostsVar = hosts
    /\ started = StartupOk

\* a request arrives and its handler runs to its first suspension point
Handle(request, info) ==
    /\ started
    /\ LET h == HandlerRun(request, info, now, requestTimestamps)
       IN  /\ reqs' = Append(reqs, h.req)
           /\ requestTimestamps' = h.map
    /\ UNCHANGED <<now, allowedHostsVar, started, probe>>

\* a server that hands out the upstream answers in the order of arrival
UpstreamRespondInOrder(i, upstreamResponse) ==
    /\ reqs[i].pc = "fetching"
    /\ \A k \in 1..(i - 1) : reqs[k].pc = "done"
    /\ reqs' = [reqs EXCEPT ![i] = PassThrough(@, upstreamResponse)]
    /\ UNCHANGED <<now, requestTimestamps, allowedHostsVar, started, probe>>

\* fetch resolves: the handler resumes after the await
UpstreamRespond(i, upstreamResponse) ==
    /\ reqs[i].pc = "fetching"
    /\ reqs' = [reqs EXCEPT ![i] = PassThrough(@, upstreamResponse)]
    /\ UNCHANGED <<now, requestTimestamps, allowedHostsVar, started, probe>>

\* a handler that gives the budget back when the upstream call fails
UpstreamFailRefunds(i, error) ==
    /\ reqs[i].pc = "fetching"
    /\ reqs' = [reqs EXCEPT ![i] = CatchError(ClearTimeout(@), error)]
    /\ requestTimestamps' = MapSet(requestTimestamps, reqs[i].clientIp, <<>>)
    /\ UNCHANGED <<now, allowedHostsVar, started, probe>>

\* fetch rejects for a reason of its own
UpstreamFail(i, error) ==
    /\ reqs[i].pc = "fetching"
    /\ reqs' = [reqs EXCEPT ![i] = CatchError(ClearTimeout(@), error)]
    /\ UNCHANGED <<now, requestTimestamps, allowedHostsVar, started, probe>>

\* one controller for the whole server: its abort rejects every pending fetch
TimerFireShared(i) ==
    /\ reqs[i].pc = "fetching"
    /\ reqs[i].timer = "armed"
    /\ now >= reqs[i].timerDue
    /\ reqs' = [j \in 1..Len(reqs) |->
                  IF reqs[j].pc = "fetching"
                  THEN CatchError(ClearTimeout([reqs[j] EXCEPT !.aborted = TRUE]),
                                  AbortError)
                  ELSE reqs[j]]
    /\ UNCHANGED <<now, requestTimestamps, allowedHostsVar, started, probe>>

\* the timer of main.ts:186 fires: controller.abort() rejects the pending fetch
TimerFire(i) ==
    /\ reqs[i].pc = "fetching"
    /\ reqs[i].timer = "armed"
    /\ now >= reqs[i].timerDue
    /\ reqs' = [reqs EXCEPT ![i] = CatchError(ClearTimeout([@ EXCEPT !.aborted = TRUE]),
                                              AbortError)]
    /\ UNCHANGED <<now, requestTimestamps, allowedHostsVar, started, probe>>

Tick ==
    /\ now < MaxTime
    /\ now' = now + 1
    /\ UNCHANGED <<requestTimestamps, reqs, allowedHostsVar, started, probe>>

Pending == {i \in 1..Len(reqs) : reqs[i].pc = "fetching"}

\* no direct call is under way in a running server
NoProbe == [op |-> "none", pattern |-> <<>>, input |-> <<>>,
            done |-> FALSE, result |-> FALSE]

\* patternToRegExp(pattern).test(input), main.ts:35-45 and 147
TestPattern ==
    /\ probe.op = "match"
    /\ ~probe.done
    /\ patternToRegExp(probe.pattern).ok
    /\ probe' = [probe EXCEPT !.done = TRUE,
                              !.result = RegExpTest(patternToRegExp(probe.pattern),
                                                    probe.input)]
    /\ UNCHANGED <<now, requestTimestamps, reqs, allowedHostsVar, started>>

\* IS_VALID_HOSTNAME.test(input), main.ts:49-52 and 129
TestHostname ==
    /\ probe.op = "valid"
    /\ ~probe.done
    /\ probe' = [probe EXCEPT !.done = TRUE, !.result = IS_VALID_HOSTNAME(probe.input)]
    /\ UNCHANGED <<now, requestTimestamps, reqs, allowedHostsVar, started>>

Init == Startup(HostsConfig) /\ probe = NoProbe

Next ==
    \/ \E request \in Requests, info \in Clients :
          Len(reqs) < MaxReqs /\ Handle(request, info)
    \/ \E i \in Pending, u \in UpstreamResponses : UpstreamRespond(i, u)
    \/ \E i \in Pending, e \in UpstreamErrors : UpstreamFail(i, e)
    \/ \E i \in Pending : TimerFire(i)
    \/ Tick

Spec == Init /\ [][Next]_vars

\* the rate limiter under load: more requests, none of which is forwarded
NextRate ==
    \/ \E request \in RateRequests, info \in Clients :
          Len(reqs) < MaxRateReqs /\ Handle(request, info)
    \/ Tick

SpecRate == Init /\ [][NextRate]_vars

\* the rate limiter over connections of every transport
NextClient ==
    \/ \E request \in ClientRequests, info \in AnyClients :
          Len(reqs) < MaxClientReqs /\ Handle(request, info)
    \/ Tick

SpecClient == Init /\ [][NextClient]_vars

\* the first request of a server, over every kind of request
NextOne ==
    \/ \E request \in OneRequests, info \in OneClients :
          reqs = <<>> /\ Handle(request, info)
    \/ \E i \in Pending, u \in OneUpstreamResponses : UpstreamRespond(i, u)
    \/ \E i \in Pending, e \in OneUpstreamErrors : UpstreamFail(i, e)
    \/ \E i \in Pending : TimerFire(i)
    \/ Tick

SpecOne == Init /\ [][NextOne]_vars

\* requests in flight together, their upstream calls ending in any order
NextPair ==
    \/ \E request \in PairRequests, info \in Clients :
          Len(reqs) < MaxPairReqs /\ Handle(request, info)
    \/ \E i \in Pending, u \in UpstreamResponses : UpstreamRespond(i, u)
    \/ \E i \in Pending, e \in OneUpstreamErrors : UpstreamFail(i, e)
    \/ \E i \in Pending : TimerFire(i)
    \/ Tick

SpecPair == Init /\ [][NextPair]_vars

\* the requests of one client, each from its arrival to its response
NextLife ==
    \/ \E request \in Requests, info \in OneClients :
          Len(reqs) < MaxReqs /\ Handle(request, info)
    \/ \E i \in Pending, u \in UpstreamResponses : UpstreamRespond(i, u)
    \/ \E i \in Pending, e \in UpstreamErrors : UpstreamFail(i, e)
    \/ \E i \in Pending : TimerFire(i)
    \/ Tick

\* what ends the await of request i: fetch resolves, fetch rejects, or the timer
\* fires and the abort rejects it
Settle(i) ==
    /\ i \in Pending
    /\ \/ \E u \in UpstreamResponses : UpstreamRespond(i, u)
       \/ \E e \in UpstreamErrors : UpstreamFail(i, e)
       \/ TimerFire(i)

\* every pending upstream call is settled at last
SpecLife ==
    /\ Init
    /\ [][NextLife]_vars
    /\ \A i \in 1..MaxReqs : WF_vars(Settle(i))

\* the first request of a server, over every value of ALLOWED_HOSTS
InitConfig == (\E hosts \in Configs : Startup(hosts)) /\ probe = NoProbe

NextConfig ==
    \/ \E request \in ConfigRequests, info \in OneClients :
          reqs = <<>> /\ Handle(request, info)
    \/ \E i \in Pending, u \in UpstreamResponses : UpstreamRespond(i, u)
    \/ \E i \in Pending, e \in UpstreamErrors : UpstreamFail(i, e)
    \/ \E i \in Pending : TimerFire(i)
    \/ Tick

SpecConfig == InitConfig /\ [][NextConfig]_vars

\* the two regular-expression tests of the handler, each called once on an input
InitTest ==
    /\ Startup(HostsConfig)
    /\ \/ \E p \in TestPatterns, h \in TestHosts :
             probe = [op |-> "match", pattern |-> p, input |-> h,
                      done |-> FALSE, result |-> FALSE]
       \/ \E p \in MetaPatterns, h \in MetaHosts :
             probe = [op |-> "match", pattern |-> p, input |-> h,
                      done |-> FALSE, result |-> FALSE]
       \/ \E h \in TestCandidates :
             probe = [op |-> "valid", pattern |-> <<>>, input |-> h,
                      done |-> FALSE, result |-> FALSE]

NextTest ==
    \/ TestPattern
    \/ TestHostname

SpecTest == InitTest /\ [][NextTest]_vars

-----------------------------------------------------------------------------
(* Vocabulary of the properties, written without the handler's own helpers *)

ReqIds == 1..Len(reqs)
Stages(r) == {r.stages[k] : k \in 1..Len(r.stages)}
Forwarded(r) == r.calls # <<>>
Status(r) == r.response.status
\* a request the rate check let through (a pending request has no status yet)
Admitted(r) == Status(r) # 429

RECURSIVE SkipSlashes(_)
SkipSlashes(p) == IF p # <<>> /\ Head(p) = "/" THEN SkipSlashes(Tail(p)) ELSE p

RECURSIVE UpToSlash(_)
UpToSlash(p) ==
    IF p = <<>> \/ Head(p) = "/" THEN <<>> ELSE <<Head(p)>> \o UpToSlash(Tail(p))

\* the first non-empty segment of a pathname, <<>> when there is none
FirstSegment(p) == UpToSlash(SkipSlashes(p))
CandidateHost(r) == FirstSegment(r.request.url.pathname)

\* some configured pattern matches the host
WhitelistMatch(host) ==
    \E i \in 1..Len(ALLOWED_HOST_PATTERNS) :
        MatchAtoms(patternToRegExp(ALLOWED_HOST_PATTERNS[i]).atoms, host)

\* the DNS label grammar, character by character: only letters, digits, hyphens
\* and dots; no dot or hyphen at either end; no dot next to a dot or a hyphen
ValidHostRef(h) ==
    /\ h # <<>>
    /\ \A k \in 1..Len(h) : h[k] \in HostAlnum \cup {"-", "."}
    /\ h[1] \in HostAlnum /\ h[Len(h)] \in HostAlnum
    /\ \A k \in 2..(Len(h) - 1) :
          h[k] = "." => h[k - 1] \in HostAlnum /\ h[k + 1] \in HostAlnum

\* the requests of the same client that arrived before request i
EarlierOfClient(i) == {j \in 1..(i - 1) : reqs[j].clientIp = reqs[i].clientIp}

\* the reference sliding window: the admitted ones among them that are
\* younger than the window when request i arrives
WindowCount(i) ==
    Cardinality({j \in EarlierOfClient(i) :
                    /\ Admitted(reqs[j])
                    /\ reqs[i].arrival - reqs[j].arrival < RATE_LIMIT_WINDOW_MS})

-----------------------------------------------------------------------------
(* Properties *)

\* C1: an upstream call is issued only for a request whose first non-empty
\* path segment matches some whitelist pattern; a request that reaches the
\* whitelist check with a host no pattern matches ends with 403, a body
\* ending in "is not in the allowed list.", and no upstream call.
C1_WhitelistGate ==
    \A i \in ReqIds :
        LET r == reqs[i]
            host == CandidateHost(r)
        IN  /\ Forwarded(r) => host # <<>> /\ WhitelistMatch(host)
            /\ ("whitelist" \in Stages(r) /\ ~WhitelistMatch(host)) =>
                  /\ r.pc = "done"
                  /\ Status(r) = 403
                  /\ r.response.body.post = "' is not in the allowed list."
                  /\ ~Forwarded(r)

\* a non-whitelisted request got its 403 while a whitelisted one is in flight
C1_Witness ==
    \E i, j \in ReqIds :
        /\ CandidateHost(reqs[i]) = H_cd /\ Status(reqs[i]) = 403
        /\ CandidateHost(reqs[j]) = H_ab /\ reqs[j].pc = "fetching"

\* C2: a request whose candidate host is not a valid host name ends with 400
\* "Bad Request: Invalid host format provided." and is not forwarded, also
\* when a whitelist pattern matches the host: the whitelist is not consulted.
C2_InvalidHostRejected ==
    \A i \in ReqIds :
        LET r == reqs[i]
            host == CandidateHost(r)
        IN  (Admitted(r) /\ host # <<>> /\ ~ValidHostRef(host)) =>
               /\ r.pc = "done"
               /\ Status(r) = 400
               /\ r.response.body.pre = "Bad Request: Invalid host format provided."
               /\ ~Forwarded(r)
               /\ "whitelist" \notin Stages(r)

\* the host -a.b, which the pattern *.b matches, was answered with 400
C2_Witness ==
    \E i \in ReqIds :
        /\ CandidateHost(reqs[i]) = H_hyphen
        /\ WhitelistMatch(H_hyphen)
        /\ Status(reqs[i]) = 400

\* C3: the limiter decides as the reference sliding window does: a request is
\* admitted iff fewer than RATE_LIMIT_MAX_REQUESTS earlier admitted requests
\* of its client are younger than the window; a request answered with 429 was
\* preceded by at least that many requests of its client inside the window.
C3_SlidingWindow ==
    \A i \in ReqIds :
        /\ Admitted(reqs[i]) <=> WindowCount(i) < RATE_LIMIT_MAX_REQUESTS
        /\ Status(reqs[i]) = 429 =>
              Cardinality({j \in EarlierOfClient(i) :
                  reqs[i].arrival - reqs[j].arrival < RATE_LIMIT_WINDOW_MS})
                >= RATE_LIMIT_MAX_REQUESTS

\* a client was rejected inside a full window and admitted after it
C3_Witness ==
    \E i, j \in ReqIds :
        /\ i < j /\ reqs[i].clientIp = reqs[j].clientIp
        /\ Status(reqs[i]) = 429
        /\ Admitted(reqs[j])
        /\ WindowCount(i) = RATE_LIMIT_MAX_REQUESTS

\* C4: of the requests of one client that arrive within one window, at most
\* RATE_LIMIT_MAX_REQUESTS are admitted, however the handlers interleave.
C4_NoOvershoot ==
    \A i \in ReqIds :
        Admitted(reqs[i]) =>
            Cardinality({j \in ReqIds :
                /\ reqs[j].clientIp = reqs[i].clientIp
                /\ Admitted(reqs[j])
                /\ reqs[j].arrival >= reqs[i].arrival
                /\ reqs[j].arrival - reqs[i].arrival < RATE_LIMIT_WINDOW_MS})
              <= RATE_LIMIT_MAX_REQUESTS

\* more requests than the limit arrived at the same time from one client: the
\* admitted ones are all still waiting for their upstream, the next got 429
C4_Witness ==
    \E k \in ReqIds :
        /\ Status(reqs[k]) = 429
        /\ Cardinality({j \in EarlierOfClient(k) :
                /\ reqs[j].arrival = reqs[k].arrival
                /\ reqs[j].pc = "fetching"}) = RATE_LIMIT_MAX_REQUESTS

\* the admitted requests of a client that are younger than the window at time t
YoungAdmitted(c, t) ==
    Cardinality({j \in ReqIds :
        /\ reqs[j].clientIp = c
        /\ Admitted(reqs[j])
        /\ t - reqs[j].arrival < RATE_LIMIT_WINDOW_MS})

C5_Step ==
    Len(reqs') = Len(reqs) + 1 =>
        LET r == reqs'[Len(reqs')]
        IN  /\ Status(r) = 429 => requestTimestamps' = requestTimestamps
            /\ YoungAdmitted(r.clientIp, r.arrival) < RATE_LIMIT_MAX_REQUESTS => Admitted(r)

\* C5: the step that answers a request with 429 leaves the timestamp map as it
\* was, and a request is admitted whenever fewer than RATE_LIMIT_MAX_REQUESTS
\* admitted requests of its client are younger than the window: the rejected
\* ones do not count.
C5_RejectedNotRecorded == [][C5_Step]_vars

\* a client was admitted less than a window after one of its rejections
C5_Witness ==
    \E i, j \in ReqIds :
        /\ i < j /\ reqs[i].clientIp = reqs[j].clientIp
        /\ Status(reqs[i]) = 429
        /\ Admitted(reqs[j])
        /\ reqs[j].arrival - reqs[i].arrival < RATE_LIMIT_WINDOW_MS

\* C6: right after a rate check of client c at time t, admitting or rejecting,
\* every timestamp stored for c is younger than the window at t, and the list
\* holds one timestamp for each admitted request of c that is.
C6_StoredAreRecent ==
    reqs # <<>> =>
        LET r == reqs[Len(reqs)]
            list == MapGet(requestTimestamps, r.clientIp)
        IN  /\ \A k \in 1..Len(list) : r.arrival - list[k] < RATE_LIMIT_WINDOW_MS
            /\ Len(list) = YoungAdmitted(r.clientIp, r.arrival)

\* the last rate check rejected, and an older admitted request of the client
\* had left the window by then
C6_Witness ==
    /\ reqs # <<>>
    /\ Status(reqs[Len(reqs)]) = 429
    /\ \E j \in EarlierOfClient(Len(reqs)) :
          /\ Admitted(reqs[j])
          /\ reqs[Len(reqs)].arrival - reqs[j].arrival >= RATE_LIMIT_WINDOW_MS

\* C7: a request of a client at capacity ends with 429 "Too Many Requests"
\* whatever its path, and only the rate check ran for it: no host was taken
\* from the path, no timer armed, no upstream call issued.
C7_RateCheckFirst ==
    \A i \in ReqIds :
        WindowCount(i) >= RATE_LIMIT_MAX_REQUESTS =>
            LET r == reqs[i]
            IN  /\ r.pc = "done"
                /\ Status(r) = 429
                /\ r.response.body = Text("Too Many Requests")
                /\ r.stages = <<"rate">>
                /\ r.targetHost = <<>>
                /\ r.timer = "none"
                /\ ~Forwarded(r)

\* a request with an invalid host, from a client at capacity, was answered with 429
C7_Witness ==
    \E i \in ReqIds :
        /\ WindowCount(i) >= RATE_LIMIT_MAX_REQUESTS
        /\ reqs[i].request.url.pathname = P_hyphen
        /\ Status(reqs[i]) = 429

\* a pathname /host/s1/.../sn, n >= 0, without an empty segment
NoEmptySegment(p) ==
    /\ Len(p) >= 2
    /\ p[1] = "/" /\ p[Len(p)] # "/"
    /\ \A k \in 1..(Len(p) - 1) : ~(p[k] = "/" /\ p[k + 1] = "/")

\* what is left of such a pathname after its host segment, "/" if nothing is
AfterHost(p) ==
    LET n == Len(FirstSegment(p))
    IN  IF Len(p) = n + 1 THEN <<"/">> ELSE SubSeq(p, n + 2, Len(p))

\* C8: for a forwarded request whose path /host/s1/.../sn has no empty segment,
\* the upstream path is /s1/.../sn, "/" when n = 0, and the upstream query is
\* the query of the request.
C8_PathAndQuery ==
    \A i \in ReqIds :
        LET r == reqs[i]
            p == r.request.url.pathname
        IN  (Forwarded(r) /\ NoEmptySegment(p)) =>
               /\ r.calls[1].url.pathname = AfterHost(p)
               /\ r.calls[1].url.search = r.request.url.search

\* /a.b/x/y/x?q=1 was forwarded as /x/y/x?q=1
C8_Witness ==
    \E i \in ReqIds :
        /\ reqs[i].request.url.pathname = P_ab_xyx
        /\ reqs[i].request.url.search = "?q=1"
        /\ Forwarded(reqs[i])
        /\ reqs[i].calls[1].url.pathname = <<"/", "x", "/", "y", "/", "x">>

\* C9: the URL of every upstream call has the scheme https, the validated
\* target host as its host (as host names are compared, without regard to
\* letter case) and no port.
C9_UpstreamUrl ==
    \A i \in ReqIds :
        LET r == reqs[i]
        IN  Forwarded(r) =>
               /\ r.calls[1].url.protocol = <<"https", ":">>
               /\ HostSerialize(r.calls[1].url.hostname) = LowerStr(CandidateHost(r))
               /\ r.calls[1].url.port = ""

\* C10: the headers of an upstream call contain no hop-by-hop header and no
\* x-forwarded-for.
C10_NoHopByHop ==
    \A i \in ReqIds :
        \A k \in 1..Len(reqs[i].calls) :
            DOMAIN reqs[i].calls[k].headers \cap
                {"connection", "keep-alive", "proxy-authenticate", "proxy-authorization",
                 "te", "trailers", "transfer-encoding", "upgrade", "x-forwarded-for"} = {}

\* a request that carried Upgrade, Transfer-Encoding and X-Forwarded-For was forwarded
C10_Witness ==
    \E i \in ReqIds :
        /\ Forwarded(reqs[i])
        /\ \E k \in 1..Len(reqs[i].request.headers) :
              reqs[i].request.headers[k][1] = "UPGRADE"
        /\ \E k \in 1..Len(reqs[i].request.headers) :
              reqs[i].request.headers[k][1] = "X-Forwarded-For"

-----------------------------------------------------------------------------
(* Headers and responses of a forwarded request *)

\* the names request sanitization removes or overwrites
SanitizedRequestNames ==
    {"connection", "keep-alive", "proxy-authenticate", "proxy-authorization", "te",
     "trailers", "transfer-encoding", "upgrade",
     "x-forwarded-for", "x-forwarded-host", "x-forwarded-proto"}

\* the values a client sent under a name, in the order it sent them
RECURSIVE ClientValues(_, _)
ClientValues(list, n) ==
    IF list = <<>> THEN <<>>
    ELSE (IF LowerName(Head(list)[1]) = n THEN <<Head(list)[2]>> ELSE <<>>)
         \o ClientValues(Tail(list), n)

ClientNames(list) == {LowerName(list[k][1]) : k \in 1..Len(list)}

\* C11: every header of the client outside the hop-by-hop set, x-forwarded-for,
\* x-forwarded-host and x-forwarded-proto is in the upstream call with the values
\* the client sent, no other such header is in the call, and the request the
\* client sent still carries the header list it arrived with
C11_OtherHeadersKept ==
    \A i \in ReqIds :
        Forwarded(reqs[i]) =>
            LET sent == reqs[i].request.headers
                h == reqs[i].calls[1].headers
            IN  /\ \A n \in (DOMAIN h \cup ClientNames(sent)) \ SanitizedRequestNames :
                      /\ n \in DOMAIN h
                      /\ n \in ClientNames(sent)
                      /\ h[n] = ClientValues(sent, n)
                /\ reqs[i].request \in OneRequests

\* a forwarded request whose Authorization header reached the upstream although
\* its Connection header was removed
C11_Witness ==
    \E i \in ReqIds :
        /\ Forwarded(reqs[i])
        /\ reqs[i].request.headers = PlainHeaders
        /\ "authorization" \in DOMAIN reqs[i].calls[1].headers
        /\ reqs[i].calls[1].headers["authorization"] = <<"k">>
        /\ "connection" \notin DOMAIN reqs[i].calls[1].headers

WithheldResponseNames ==
    {"set-cookie", "proxy-authenticate", "www-authenticate", "server", "x-powered-by"}

\* C12: a response built from a successful upstream call has none of set-cookie,
\* proxy-authenticate, www-authenticate, server and x-powered-by among its
\* headers, whatever headers the upstream sent
C12_NoWithheldHeader ==
    \A i \in ReqIds :
        "respond" \in Stages(reqs[i]) =>
            DOMAIN reqs[i].response.headers \cap WithheldResponseNames = {}

\* the 404 of an upstream that sent two cookies and a challenge reached the
\* client with the upstream's etag
C12_Witness ==
    \E i \in ReqIds :
        /\ "respond" \in Stages(reqs[i])
        /\ Status(reqs[i]) = 404
        /\ "etag" \in DOMAIN reqs[i].response.headers

\* C13: when the upstream call returns a response, the response to the client has
\* the status code and the status text of the upstream's, for every upstream
\* status, 4xx and 5xx (502 and 504 too) included
C13_Step ==
    \A i \in ReqIds, u \in OneUpstreamResponses :
        UpstreamRespond(i, u) =>
            /\ reqs'[i].pc = "done"
            /\ reqs'[i].response.status = u.status
            /\ reqs'[i].response.statusText = u.statusText

C13_StatusPassedThrough == [][C13_Step]_vars

\* an upstream 500 reached the client as 500 Internal Server Error
C13_Witness ==
    \E i \in ReqIds :
        /\ "respond" \in Stages(reqs[i])
        /\ Status(reqs[i]) = 500
        /\ reqs[i].response.statusText = "Internal Server Error"

\* the body of the 504 the proxy writes: it names the host and the timeout
IsTimeoutBody(r) ==
    /\ r.response.body.pre = "Gateway Timeout: Request to '"
    /\ r.response.body.host = CandidateHost(r)
    /\ r.response.body.mid = "' exceeded "
    /\ r.response.body.ms = PROXY_TIMEOUT_MS
    /\ r.response.body.post = "ms."

TimedOutAnswered(r) ==
    r.aborted => /\ r.pc = "done"
                 /\ Status(r) = 504
                 /\ IsTimeoutBody(r)

\* C14 as the specification states it: a timer that fires on a pending call aborts
\* it and ends the request with a 504 naming host and timeout, and no request
\* ends with 504 unless its timer fired
C14_Only504ByTimeout ==
    \A i \in ReqIds :
        /\ TimedOutAnswered(reqs[i])
        /\ (reqs[i].pc = "done" /\ Status(reqs[i]) = 504) => reqs[i].aborted

\* C14, amended: a timer that fires on a pending call aborts it and ends the
\* request with a 504 naming host and timeout; a 504 that the proxy writes itself
\* (one that is not the passed-through answer of the upstream) ends a request
\* only when its timer fired
C14_Own504ByTimeout ==
    \A i \in ReqIds :
        /\ TimedOutAnswered(reqs[i])
        /\ (/\ reqs[i].pc = "done"
            /\ Status(reqs[i]) = 504
            /\ "respond" \notin Stages(reqs[i])) => reqs[i].aborted

\* a request whose timer fired at its due time and which got the 504
C14_Witness ==
    \E i \in ReqIds :
        /\ reqs[i].aborted
        /\ Status(reqs[i]) = 504
        /\ now >= reqs[i].arrival + PROXY_TIMEOUT_MS

\* C15: when the upstream call fails for a reason of its own (not the timeout
\* abort), the request ends with 502 and a body that names the target host
C15_Step ==
    \A i \in ReqIds, e \in OneUpstreamErrors :
        UpstreamFail(i, e) =>
            /\ reqs'[i].pc = "done"
            /\ reqs'[i].response.status = 502
            /\ reqs'[i].response.body.pre = "Bad Gateway: Could not reach target host '"
            /\ reqs'[i].response.body.host = CandidateHost(reqs[i])
            /\ reqs'[i].response.body.post = "'."

C15_FailureIs502 == [][C15_Step]_vars

\* a request whose upstream call failed before its timer was due
C15_Witness ==
    \E i \in ReqIds :
        /\ "catch" \in Stages(reqs[i])
        /\ ~reqs[i].aborted
        /\ Status(reqs[i]) = 502
        /\ now < reqs[i].timerDue

\* C16: no request has its response while its timer is still armed; a request
\* that armed a timer ends with the timer cleared on every exit path
C16_NoTimerLeft ==
    \A i \in ReqIds :
        reqs[i].pc = "done" =>
            /\ reqs[i].timer # "armed"
            /\ Forwarded(reqs[i]) => reqs[i].timer = "cleared"

\* a request that armed its timer and ended with 502 before the timer was due
C16_Witness ==
    \E i \in ReqIds :
        /\ reqs[i].pc = "done"
        /\ Forwarded(reqs[i])
        /\ Status(reqs[i]) = 502
        /\ now < reqs[i].timerDue
        /\ reqs[i].timer = "cleared"

-----------------------------------------------------------------------------
(* The whitelist compiler *)

RECURSIVE StarCount(_)
StarCount(p) ==
    IF p = <<>> THEN 0 ELSE (IF Head(p) = "*" THEN 1 ELSE 0) + StarCount(Tail(p))

ConfiguredPatterns == {ALLOWED_HOST_PATTERNS[k] : k \in 1..Len(ALLOWED_HOST_PATTERNS)}

\* C17: a pattern compiles when it has at most 3 stars and fails when it has 4
\* or more, so the server starts exactly when every configured pattern has at
\* most 3 stars; a server with a pattern that fails never starts and serves no
\* request, whatever other patterns are configured with it
C17_StartsIffAllCompile ==
    /\ started <=> \A p \in ConfiguredPatterns : StarCount(p) <= 3
    /\ (\E p \in ConfiguredPatterns : StarCount(p) >= 4) =>
          /\ reqs = <<>>
          /\ DOMAIN requestTimestamps = {}

\* a.b is configured beside a pattern of four stars: time passes and the server
\* has not started
C17_Witness ==
    /\ <<"a", ".", "b">> \in ConfiguredPatterns
    /\ \E p \in ConfiguredPatterns : StarCount(p) = 4
    /\ now > 0
    /\ ~started

-----------------------------------------------------------------------------
(* The two tests, called directly *)

Matched == probe.op = "match" /\ probe.done
Validated == probe.op = "valid" /\ probe.done

\* the labels of a name: what stands between its dots
RECURSIVE Labels(_)
Labels(s) ==
    IF \A k \in 1..Len(s) : s[k] # "." THEN <<s>>
    ELSE LET d == CHOOSE k \in 1..Len(s) :
                     s[k] = "." /\ \A j \in 1..(k - 1) : s[j] # "."
         IN  <<SubSeq(s, 1, d - 1)>> \o Labels(SubSeq(s, d + 1, Len(s)))

SameIgnoringCase(s, t) ==
    /\ Len(s) = Len(t)
    /\ \A k \in 1..Len(s) : ToLower(s[k]) = ToLower(t[k])

\* every star of the pattern is a label of its own
StarsAreLabels(p) ==
    \A k \in 1..Len(Labels(p)) :
        Labels(p)[k] = <<"*">> \/ StarCount(Labels(p)[k]) = 0

\* label by label: a star against one non-empty label, a literal label against
\* the same label in any letter case
LabelwiseMatch(p, h) ==
    /\ Len(Labels(p)) = Len(Labels(h))
    /\ \A k \in 1..Len(Labels(p)) :
          IF Labels(p)[k] = <<"*">>
          THEN Labels(h)[k] # <<>>
          ELSE SameIgnoringCase(Labels(p)[k], Labels(h)[k])

\* C18: a star of a compiled pattern matches exactly one non-empty label without
\* a dot: a pattern whose stars are labels matches a name exactly when the two
\* have the same number of labels, each star facing a non-empty label and each
\* literal label facing itself; *.b matches a.b, not b and not a.a.b
C18_StarIsOneLabel ==
    Matched =>
        /\ StarsAreLabels(probe.pattern) =>
              (probe.result <=> LabelwiseMatch(probe.pattern, probe.input))
        /\ probe.result =>
              /\ Len(Labels(probe.input)) = Len(Labels(probe.pattern))
              /\ Len(probe.input) >= Len(probe.pattern)
        /\ probe.pattern = <<"*", ".", "b">> =>
              /\ probe.input = <<"a", ".", "b">> => probe.result
              /\ probe.input = <<"b">> => ~probe.result
              /\ probe.input = <<"a", ".", "a", ".", "b">> => ~probe.result

\* *.b was tested on a.a.b and did not match
C18_Witness ==
    /\ Matched
    /\ probe.pattern = <<"*", ".", "b">>
    /\ probe.input = <<"a", ".", "a", ".", "b">>
    /\ ~probe.result

\* C19: matching is anchored and case-insensitive: a pattern without a star
\* matches a name only if the name is the whole pattern, in any letter case; the
\* first and the last literal character of any pattern face the first and the
\* last character of a name it matches; and a name and its lower-case form get
\* the same result
C19_AnchoredAnyCase ==
    Matched =>
        LET p == probe.pattern
            h == probe.input
        IN  /\ StarCount(p) = 0 => (probe.result <=> SameIgnoringCase(p, h))
            /\ (probe.result /\ p[1] # "*") => ToLower(h[1]) = ToLower(p[1])
            /\ (probe.result /\ p[Len(p)] # "*") =>
                  ToLower(h[Len(h)]) = ToLower(p[Len(p)])
            /\ probe.result = RegExpTest(patternToRegExp(p), LowerStr(h))

\* a.b was tested on a.b.x, which starts with it, and did not match
C19_Witness ==
    /\ Matched
    /\ probe.pattern = <<"a", ".", "b">>
    /\ probe.input = <<"a", ".", "b", ".", "x">>
    /\ ~probe.result

\* C20: the validator accepts a candidate exactly when it is a dot-separated
\* sequence of non-empty labels of letters, digits and hyphens, none starting or
\* ending with a hyphen; it rejects a..a, a/a and -a.a; a call changes nothing
\* but its own result
C20_Step ==
    /\ Validated' =>
          /\ probe'.result <=> ValidHostRef(probe'.input)
          /\ probe'.input \in {<<"a", ".", ".", "a">>, <<"a", "/", "a">>,
                                <<"-", "a", ".", "a">>} => ~probe'.result
    /\ (probe.op = "valid" /\ probe' # probe) =>
          /\ probe'.input = probe.input
          /\ UNCHANGED <<now, requestTimestamps, reqs, allowedHostsVar, started>>

C20_ValidatorGrammar == [][C20_Step]_vars

\* a/a was tested and rejected
C20_Witness ==
    /\ Validated
    /\ probe.input = <<"a", "/", "a">>
    /\ ~probe.result

-----------------------------------------------------------------------------
(* Rejections, logs and the life of a request *)

HasNoSegment(p) == \A k \in 1..Len(p) : p[k] = "/"

\* C21: a request whose path has no non-empty segment ends with 400 and the
\* message that the first path segment must be the target host, without an
\* upstream call; the host taken from any other path is never the empty string:
\* it is the first non-empty segment, whatever slashes precede it
C21_EmptyPathRejected ==
    \A i \in ReqIds :
        Admitted(reqs[i]) =>
            IF HasNoSegment(reqs[i].request.url.pathname)
            THEN /\ reqs[i].pc = "done"
                 /\ Status(reqs[i]) = 400
                 /\ reqs[i].response.body =
                       Text("Bad Request: The first path segment must be the target host.")
                 /\ ~Forwarded(reqs[i])
                 /\ Stages(reqs[i]) = {"rate", "path"}
            ELSE /\ reqs[i].targetHost # <<>>
                 /\ reqs[i].targetHost = CandidateHost(reqs[i])
                 /\ "validate" \in Stages(reqs[i])

\* the path // was answered 400 with that message
C21_Witness ==
    \E i \in ReqIds :
        /\ reqs[i].request.url.pathname = P_slashes
        /\ Status(reqs[i]) = 400
        /\ reqs[i].response.body.pre =
              "Bad Request: The first path segment must be the target host."

Rejected(r) == r.pc = "done" /\ "respond" \notin Stages(r)

\* C22: every request that ends in a rejection or a failure (429, 400 for an
\* empty path, 400 for an invalid host, 403, 504, 502) has written exactly one
\* log record when its response is returned: at warning level for the client's
\* errors and the policy's, at error level for the upstream's
C22_OneLogPerRejection ==
    \A i \in ReqIds :
        Rejected(reqs[i]) =>
            /\ Len(reqs[i].logs) = 1
            /\ reqs[i].logs[1].level =
                  IF Status(reqs[i]) \in {502, 504} THEN "ERROR" ELSE "WARN"

\* C23: at most one upstream call is ever issued for a request; a call that
\* failed or timed out is answered 502 or 504 at once, and the calls of a request
\* never change after its handler has issued them
C23_NoRetry ==
    \A i \in ReqIds :
        /\ Len(reqs[i].calls) <= 1
        /\ "catch" \in Stages(reqs[i]) =>
              /\ reqs[i].pc = "done"
              /\ Len(reqs[i].calls) = 1
              /\ Status(reqs[i]) \in {502, 504}
              /\ reqs[i].stages[Len(reqs[i].stages) - 1] = "fetch"

\* one request timed out and another failed, each after a single call
C23_Witness ==
    \E i, j \in ReqIds :
        /\ Status(reqs[i]) = 504 /\ Len(reqs[i].calls) = 1
        /\ Status(reqs[j]) = 502 /\ Len(reqs[j].calls) = 1

TerminalStatuses == {429, 400, 403, 504, 502} \cup {u.status : u \in UpstreamResponses}

\* a request is suspended at its await, without a response, or has ended with
\* one response of the terminal set
C24_State ==
    \A i \in ReqIds :
        \/ /\ reqs[i].pc = "fetching"
           /\ reqs[i].response = NoResponse
        \/ /\ reqs[i].pc = "done"
           /\ Status(reqs[i]) \in TerminalStatuses

\* a response, once given, is the response for good
C24_Step ==
    \A i \in ReqIds : reqs[i].pc = "done" => reqs'[i] = reqs[i]

\* C24: every request ends with exactly one terminal response, of 429, 400, 403,
\* 504, 502 or the upstream status; a suspended request gets it at last when its
\* upstream call resolves, fails or is aborted by the timer; no request is left
\* in another condition
C24_OneTerminalResponse ==
    /\ []C24_State
    /\ [][C24_Step]_vars
    /\ \A i \in 1..MaxReqs :
          (i \in Pending) ~> (i \in ReqIds /\ reqs[i].pc = "done")

\* three requests of a client ended 200, 403 and 429
C24_Witness ==
    /\ Len(reqs) = 3
    /\ \A i \in ReqIds : reqs[i].pc = "done"
    /\ {Status(reqs[i]) : i \in ReqIds} = {200, 403, 429}

\* a suspended request has a timer of its own, due one timeout after its arrival
C25_State ==
    \A i \in ReqIds :
        reqs[i].pc = "fetching" =>
            /\ reqs[i].timer = "armed"
            /\ reqs[i].timerDue = reqs[i].arrival + PROXY_TIMEOUT_MS
            /\ ~reqs[i].aborted

\* the step in which the call of request i is aborted: its own timer was due, it
\* ends with 504, and every other request is after the step what it was before
C25_Step ==
    \A i \in ReqIds :
        (~reqs[i].aborted /\ reqs'[i].aborted) =>
            /\ now >= reqs[i].timerDue
            /\ reqs'[i].response.status = 504
            /\ \A j \in ReqIds \ {i} : reqs'[j] = reqs[j]

\* C25: each forwarded request has its own timer and abort signal: when the
\* timer of a request fires only that request's call is aborted and only that
\* request ends with 504; the other requests in flight keep their timers and
\* their calls untouched
C25_OwnTimer == []C25_State /\ [][C25_Step]_vars

\* a request timed out while a later one is still waiting with its timer armed
C25_Witness ==
    \E i, j \in ReqIds :
        /\ reqs[i].aborted /\ Status(reqs[i]) = 504
        /\ reqs[j].pc = "fetching"
        /\ reqs[j].timer = "armed"
        /\ reqs[j].timerDue > now

\* the abort signal of a request is triggered only while its call is pending and
\* its timer armed, and never once the call has returned or failed
C26_Step ==
    \A i \in ReqIds :
        /\ (~reqs[i].aborted /\ reqs'[i].aborted) =>
              /\ reqs[i].pc = "fetching"
              /\ reqs[i].timer = "armed"
        /\ reqs[i].pc = "done" =>
              /\ reqs'[i].aborted = reqs[i].aborted
              /\ reqs'[i].response = reqs[i].response

\* of the answer and the timeout exactly one is taken
OneOutcome(r) ==
    /\ r.pc = "done" /\ Forwarded(r) =>
          ("respond" \in Stages(r)) # ("catch" \in Stages(r))
    /\ r.aborted => "catch" \in Stages(r)
    /\ "respond" \in Stages(r) => ~r.aborted /\ r.timer = "cleared"

\* C26 as the specification states it: the timeout fires only while the upstream
\* call is pending, exactly one of the two outcomes is taken, and a request whose
\* upstream answered never ends with 504
C26_AnsweredNever504 ==
    /\ [][C26_Step]_vars
    /\ [](\A i \in ReqIds :
            /\ OneOutcome(reqs[i])
            /\ "respond" \in Stages(reqs[i]) => Status(reqs[i]) # 504)

\* C26, amended: the timeout fires only while the upstream call is pending,
\* exactly one of the two outcomes is taken, and a request whose upstream
\* answered never ends with the timeout response of the proxy: its response is
\* the upstream's, body included, whatever its status
C26_AnsweredNeverTimeout ==
    /\ [][C26_Step]_vars
    /\ [](\A i \in ReqIds :
            /\ OneOutcome(reqs[i])
            /\ "respond" \in Stages(reqs[i]) =>
                  /\ reqs[i].response.body.stream # "none"
                  /\ reqs[i].response.body.pre = ""
                  /\ "x-proxied-by" \in DOMAIN reqs[i].response.headers)

\* the upstream answered when the timer was already due, and its answer won
C26_Witness ==
    \E i \in ReqIds :
        /\ "respond" \in Stages(reqs[i])
        /\ now >= reqs[i].timerDue
        /\ ~reqs[i].aborted
        /\ Status(reqs[i]) = 200

\* the answer of the upstream can be delivered to any suspended request,
\* whichever requests admitted before it are still suspended
C27_State ==
    \A j \in Pending : \A u \in UpstreamResponses : ENABLED UpstreamRespond(j, u)

\* a request that arrives while others are suspended is handled in the step of
\* its arrival: it passes the stages up to its own response or its own await,
\* and the suspended requests stay as they are
C27_Step ==
    (Pending # {} /\ Len(reqs') = Len(reqs) + 1) =>
        LET r == reqs'[Len(reqs')]
        IN  /\ r.arrival = now
            /\ \/ r.pc = "done" /\ Status(r) \in {400, 403, 429}
               \/ r.pc = "fetching" /\ r.stages[Len(r.stages)] = "fetch"
            /\ \A j \in ReqIds : reqs'[j] = reqs[j]

\* C27: no head-of-line blocking: while an admitted request is suspended at its
\* await, another request of the same or of another client passes every stage
\* and can receive its response; requests complete in any order
C27_NoHeadOfLineBlocking == []C27_State /\ [][C27_Step]_vars

\* two admitted requests of one client: the second has its answer, the first is
\* still waiting for its upstream
C27_Witness ==
    /\ Len(reqs) = 2
    /\ reqs[1].clientIp = reqs[2].clientIp
    /\ reqs[1].pc = "fetching"
    /\ reqs[2].pc = "done"
    /\ "respond" \in Stages(reqs[2])
    /\ Status(reqs[2]) = 200

Failed(r) == r.pc = "done" /\ "catch" \in Stages(r)

\* C28: the body of a 502 or 504 depends on the target host and the configured
\* timeout only: two failed requests with the same status and the same target
\* host have the same response, body and headers, whatever the errors of their
\* upstream calls were; the message of the error is in the log record
C28_SameBodyForSameHost ==
    \A i, j \in ReqIds :
        (/\ Failed(reqs[i]) /\ Failed(reqs[j])
         /\ Status(reqs[i]) = Status(reqs[j])
         /\ CandidateHost(reqs[i]) = CandidateHost(reqs[j])) =>
            /\ reqs[i].response = reqs[j].response
            /\ reqs[i].response.body.stream = "none"
            /\ reqs[i].response.body.ms \in {-1, PROXY_TIMEOUT_MS}
            /\ Len(reqs[i].logs) = 1

\* two calls to the same host failed with different errors, which the two log
\* records tell apart and the two 502 responses do not
C28_Witness ==
    \E i, j \in ReqIds :
        /\ Failed(reqs[i]) /\ Failed(reqs[j])
        /\ Status(reqs[i]) = 502 /\ Status(reqs[j]) = 502
        /\ CandidateHost(reqs[i]) = CandidateHost(reqs[j])
        /\ reqs[i].logs[1].error = "dns error"
        /\ reqs[j].logs[1].error = "connection refused"
        /\ reqs[i].response.body = reqs[j].response.body

\* C29: in every upstream call x-forwarded-host is the host (name and explicit
\* port) of the inbound request URL and x-forwarded-proto its scheme, each with
\* that single value, also when the client sent values of its own
C29_ForwardedHostAndProto ==
    \A i \in ReqIds :
        Forwarded(reqs[i]) =>
            LET url == reqs[i].request.url
                h == reqs[i].calls[1].headers
            IN  /\ "x-forwarded-host" \in DOMAIN h
                /\ h["x-forwarded-host"] =
                      <<[hostname |-> url.hostname.name, port |-> url.port]>>
                /\ "x-forwarded-proto" \in DOMAIN h
                /\ h["x-forwarded-proto"] = << <<url.protocol[1]>> >>

\* a client sent x-forwarded-host h and x-forwarded-proto ftp over https on port
\* 8443: the upstream call carries the proxy's values
C29_Witness ==
    \E i \in ReqIds :
        /\ Forwarded(reqs[i])
        /\ ClientValues(reqs[i].request.headers, "x-forwarded-host") = <<"h">>
        /\ ClientValues(reqs[i].request.headers, "x-forwarded-proto") = <<"ftp">>
        /\ reqs[i].request.url.port = "8443"
        /\ reqs[i].calls[1].headers["x-forwarded-proto"] = << <<"https">> >>

\* C30: response sanitization removes set-cookie, proxy-authenticate,
\* www-authenticate, server and x-powered-by and nothing else: every other header
\* of the upstream response, the x-proxied-by marker apart, is in the response to
\* the client with the values the upstream sent, and no other header is added
C30_Step ==
    \A i \in ReqIds, u \in OneUpstreamResponses :
        UpstreamRespond(i, u) =>
            LET h == reqs'[i].response.headers
            IN  \A n \in (ClientNames(u.headers) \cup DOMAIN h)
                          \ (WithheldResponseNames \cup {"x-proxied-by"}) :
                    /\ n \in DOMAIN h
                    /\ n \in ClientNames(u.headers)
                    /\ h[n] = ClientValues(u.headers, n)

C30_OnlyFiveRemoved == [][C30_Step]_vars

-----------------------------------------------------------------------------
(* Literal characters of a pattern *)

\* a pattern read as a glob: a star is one or more characters other than a
\* dot, every other character stands for itself in either letter case
RECURSIVE GlobMatch(_, _)
GlobMatch(p, h) ==
    IF p = <<>> THEN h = <<>>
    ELSE IF Head(p) = "*"
    THEN \E n \in 1..Len(h) :
            /\ \A k \in 1..n : h[k] # "."
            /\ GlobMatch(Tail(p), SubSeq(h, n + 1, Len(h)))
    ELSE /\ h # <<>>
         /\ ToLower(Head(h)) = ToLower(Head(p))
         /\ GlobMatch(Tail(p), Tail(h))

\* C31: every character of a pattern other than a star is matched literally:
\* the compiled pattern matches a name exactly when the pattern read as a glob
\* does, a name matched by a pattern without a star has the pattern's own
\* characters at every position, and a.b does not match axb
C31_MetaLiteral ==
    Matched =>
        /\ probe.result <=> GlobMatch(probe.pattern, probe.input)
        /\ probe.result /\ StarCount(probe.pattern) = 0 =>
              /\ Len(probe.input) = Len(probe.pattern)
              /\ \A k \in 1..Len(probe.pattern) :
                    probe.pattern[k] \in RegexMeta =>
                        probe.input[k] = probe.pattern[k]
        /\ probe.pattern = <<"a", ".", "b">> /\ probe.input = <<"a", "x", "b">> =>
              ~probe.result

\* a.b was tested on axb and did not match, or a+ was tested on aa
C31_Witness ==
    /\ Matched
    /\ ~probe.result
    /\ \/ probe.pattern = <<"a", ".", "b">> /\ probe.input = <<"a", "x", "b">>
       \/ probe.pattern = <<"a", "+">> /\ probe.input = <<"a", "a">>

-----------------------------------------------------------------------------
(* What a request writes *)

\* the timestamps of a list that are younger than the window at time t
YoungOf(list, t) ==
    LET Young(ts) == t - ts < RATE_LIMIT_WINDOW_MS
    IN  SelectSeq(list, Young)

\* the map after the rate check of request r, whatever r did afterwards
MapAfterRateCheck(map, r) ==
    IF Status(r) = 429 THEN map
    ELSE [k \in (DOMAIN map) \cup {r.clientIp} |->
            IF k = r.clientIp
            THEN Append(YoungOf(MapGet(map, k), r.arrival), r.arrival)
            ELSE map[k]]

\* the compiled whitelist is a function of ALLOWED_HOSTS alone
C32_Step ==
    /\ allowedHostsVar' = allowedHostsVar
    /\ started' = started
    /\ probe' = probe
    /\ Len(reqs') = Len(reqs) => requestTimestamps' = requestTimestamps
    /\ Len(reqs') # Len(reqs) =>
          /\ Len(reqs') = Len(reqs) + 1
          /\ requestTimestamps' = MapAfterRateCheck(requestTimestamps, reqs'[Len(reqs')])

\* C32: of the state the requests share, a request writes the rate-limit map
\* only, and only in its rate check: the step of an arriving request leaves
\* the map the rate check leaves, whether the request goes on to a 400, a 403
\* or the upstream call, and every later step (the upstream answer, its
\* failure, the timeout, the clock) leaves the map as it is; the whitelist
\* and its compiled patterns never change.
C32_OnlyRateCheckWrites == [][C32_Step]_vars

\* after their rate checks one request failed upstream and another was
\* rejected by the whitelist: both timestamps are in the map
C32_Witness ==
    \E i, j \in ReqIds :
        /\ Status(reqs[i]) = 502 /\ Status(reqs[j]) = 403
        /\ \E k \in 1..Len(MapGet(requestTimestamps, reqs[i].clientIp)) :
              requestTimestamps[reqs[i].clientIp][k] = reqs[i].arrival
        /\ \E k \in 1..Len(MapGet(requestTimestamps, reqs[j].clientIp)) :
              requestTimestamps[reqs[j].clientIp][k] = reqs[j].arrival

-----------------------------------------------------------------------------
(* The order of the stored timestamps *)

\* the arrival times of the admitted ones among the first n requests, those of
\* client c, in the order they reached the limiter
RECURSIVE ArrivalsUpTo(_, _)
ArrivalsUpTo(c, n) ==
    IF n = 0 THEN <<>>
    ELSE ArrivalsUpTo(c, n - 1) \o
            (IF reqs[n].clientIp = c /\ Admitted(reqs[n])
             THEN <<reqs[n].arrival>> ELSE <<>>)

AdmittedArrivals(c) == ArrivalsUpTo(c, Len(reqs))

\* the statement of C33 as written: the list of a client holds the arrival
\* time of every admitted request of the client
C33_AllAdmittedStored ==
    \A c \in DOMAIN requestTimestamps :
        requestTimestamps[c] = AdmittedArrivals(c)

\* C33: the list stored for a client is in non-decreasing order and holds, in
\* the order they reached the limiter, the arrival times of those admitted
\* requests of the client that were younger than the window when the last of
\* them was admitted; a client without an admitted request has no list.
C33_ArrivalOrder ==
    /\ \A c \in DOMAIN requestTimestamps :
          LET list == requestTimestamps[c]
              all == AdmittedArrivals(c)
          IN  /\ \A k \in 1..(Len(list) - 1) : list[k] <= list[k + 1]
              /\ all # <<>>
              /\ list = YoungOf(all, all[Len(all)])
    /\ \A i \in ReqIds :
          Admitted(reqs[i]) => reqs[i].clientIp \in DOMAIN requestTimestamps

\* a client's list holds two different arrival times in their order, an older
\* admitted request of the client having left the window
C33_Witness ==
    \E c \in DOMAIN requestTimestamps :
        /\ Len(requestTimestamps[c]) = 2
        /\ requestTimestamps[c][1] < requestTimestamps[c][2]
        /\ Len(AdmittedArrivals(c)) > 2

-----------------------------------------------------------------------------
(* The size of a stored list *)

\* C34: in every reachable state the list stored for each client holds at most
\* RATE_LIMIT_MAX_REQUESTS timestamps.
C34_ListBounded ==
    \A c \in DOMAIN requestTimestamps :
        Len(requestTimestamps[c]) <= RATE_LIMIT_MAX_REQUESTS

\* the list of a client is full and a further request of the client, arriving
\* inside the window, was rejected and left it as it was
C34_Witness ==
    \E i \in ReqIds :
        /\ Status(reqs[i]) = 429
        /\ i = Len(reqs)
        /\ Len(MapGet(requestTimestamps, reqs[i].clientIp)) = RATE_LIMIT_MAX_REQUESTS

-----------------------------------------------------------------------------
(* Budget spent by requests that fail later *)

\* the answers of a request that passed the rate check and was not served
FailedStatuses == {400, 403, 502, 504}

\* the earlier requests of the client of request i that ended so and arrived
\* less than a window before it
SpentBefore(i) ==
    {j \in EarlierOfClient(i) :
        /\ Status(reqs[j]) \in FailedStatuses
        /\ reqs[i].arrival - reqs[j].arrival < RATE_LIMIT_WINDOW_MS}

\* C35: a request that passed the rate check has spent budget whatever became
\* of it: the arrival time of the latest request is the last timestamp of its
\* client's list unless it was answered 429, also after it ended with 400,
\* 403, 502 or 504, and a request that follows RATE_LIMIT_MAX_REQUESTS
\* requests of its client ended so inside the window is answered 429.
C35_BudgetSpent ==
    /\ reqs # <<>> /\ Admitted(reqs[Len(reqs)]) =>
          LET r == reqs[Len(reqs)]
              list == MapGet(requestTimestamps, r.clientIp)
          IN  list # <<>> /\ list[Len(list)] = r.arrival
    /\ \A i \in ReqIds :
          Cardinality(SpentBefore(i)) >= RATE_LIMIT_MAX_REQUESTS =>
              Status(reqs[i]) = 429

\* a request was answered 429 after a request rejected by the proxy and a
\* request that failed upstream, both of its client and inside the window
C35_Witness ==
    \E i \in ReqIds :
        /\ Status(reqs[i]) = 429
        /\ \E j \in SpentBefore(i) : Status(reqs[j]) \in {400, 403}
        /\ \E j \in SpentBefore(i) : Status(reqs[j]) \in {502, 504}

-----------------------------------------------------------------------------
(* One budget per client identifier *)

\* the step of an arriving request: the lists of all other identifiers stay
\* as they are, no list appears or disappears for them, and the decision is
\* taken on the list of the request's own identifier
C36_Step ==
    Len(reqs') = Len(reqs) + 1 =>
        LET r == reqs'[Len(reqs')]
            own == MapGet(requestTimestamps, r.clientIp)
        IN  /\ \A k \in (DOMAIN requestTimestamps \cup DOMAIN requestTimestamps')
                          \ {r.clientIp} :
                  /\ k \in DOMAIN requestTimestamps
                  /\ k \in DOMAIN requestTimestamps'
                  /\ requestTimestamps'[k] = requestTimestamps[k]
            /\ Status(r) = 429 <=>
                  Len(YoungOf(own, r.arrival)) >= RATE_LIMIT_MAX_REQUESTS

\* C36: rate limiting is isolated per client identifier: a request of one
\* client leaves the list of every other client unchanged, and whether a
\* request is admitted depends on the list of its own client only, which only
\* requests of that client have written.
C36_Isolated == [][C36_Step]_vars

\* one client has used up its budget and was answered 429; a request of the
\* other client arriving at the same time was admitted
C36_Witness ==
    \E i, j \in ReqIds :
        /\ i < j
        /\ reqs[i].clientIp # reqs[j].clientIp
        /\ reqs[i].arrival = reqs[j].arrival
        /\ Status(reqs[i]) = 429
        /\ Admitted(reqs[j])
        /\ Len(MapGet(requestTimestamps, reqs[j].clientIp)) = 1

-----------------------------------------------------------------------------
(* The empty whitelist *)

\* ALLOWED_HOSTS is unset, empty, or made of commas and blanks only
BlankConfig == \A k \in 1..Len(allowedHostsVar) : allowedHostsVar[k] \in {",", " "}

\* C37: with ALLOWED_HOSTS unset, empty or made of commas and blanks only, the
\* server starts with no pattern and forwards no request: a request that
\* passed the rate check with a valid hostname has ended with 403, and no
\* request has an upstream call or is waiting for one.
C37_EmptyWhitelistForbids ==
    BlankConfig =>
        /\ ConfiguredPatterns = {}
        /\ \A i \in ReqIds :
              /\ ~Forwarded(reqs[i])
              /\ reqs[i].pc = "done"
              /\ Admitted(reqs[i]) /\ ValidHostRef(CandidateHost(reqs[i])) =>
                    Status(reqs[i]) = 403

\* ALLOWED_HOSTS holds commas only and a request for a.b ended with 403
C37_Witness ==
    /\ BlankConfig
    /\ \E k \in 1..Len(allowedHostsVar) : allowedHostsVar[k] = ","
    /\ \E i \in ReqIds :
          /\ CandidateHost(reqs[i]) = <<"a", ".", "b">>
          /\ Status(reqs[i]) = 403

-----------------------------------------------------------------------------
(* The client identifier *)

Transport(r) == r.info.remoteAddr.transport
OtherTransport(r) == Transport(r) \notin {"tcp", "unix"}

\* the earlier admitted requests over any connection that is neither TCP nor
\* a unix socket, younger than the window when request i arrives
OtherWindowCount(i) ==
    Cardinality({j \in 1..(i - 1) :
        /\ OtherTransport(reqs[j])
        /\ Admitted(reqs[j])
        /\ reqs[i].arrival - reqs[j].arrival < RATE_LIMIT_WINDOW_MS})

\* C38: the client identifier is the remote hostname of a TCP connection and
\* unix:<path> of a unix socket, and unknown for every other transport: the
\* requests of all such connections are counted together, one of them being
\* answered 429 exactly when RATE_LIMIT_MAX_REQUESTS of them were admitted
\* inside the window, and their timestamps are in the one list of unknown.
C38_ClientIdentifier ==
    /\ \A i \in ReqIds :
          LET r == reqs[i]
          IN  /\ Transport(r) = "tcp" => r.clientIp = <<r.info.remoteAddr.hostname>>
              /\ Transport(r) = "unix" => r.clientIp = <<"unix:", r.info.remoteAddr.path>>
              /\ OtherTransport(r) =>
                    /\ r.clientIp = <<"unknown">>
                    /\ Status(r) = 429 <=>
                          OtherWindowCount(i) >= RATE_LIMIT_MAX_REQUESTS
    /\ \A i, j \in ReqIds :
          Transport(reqs[i]) = "unix" /\ Transport(reqs[j]) = "unix"
            /\ reqs[i].info.remoteAddr.path # reqs[j].info.remoteAddr.path =>
              reqs[i].clientIp # reqs[j].clientIp
    /\ \A k \in DOMAIN requestTimestamps :
          \E i \in ReqIds : Admitted(reqs[i]) /\ reqs[i].clientIp = k

\* one vsock peer used up the budget of unknown and the first request of
\* another vsock peer was answered 429
C38_Witness ==
    \E i \in ReqIds :
        /\ OtherTransport(reqs[i])
        /\ Status(reqs[i]) = 429
        /\ \A j \in 1..(i - 1) :
              /\ OtherTransport(reqs[j])
              /\ reqs[j].info # reqs[i].info
        /\ Len(MapGet(requestTimestamps, <<"unknown">>)) = RATE_LIMIT_MAX_REQUESTS

====
